---- MODULE Spec2Model ----
(***************************************************************************)
(* State-machine model of the in-memory transport of a helper              *)
(* (src/src/test_fixture/network/transport.rs) and of the PRSS generator   *)
(* (src/ipa-core/src/protocol/prss/crypto.rs).                             *)
(*                                                                         *)
(* The transport part models ONE helper's transport instance (its inbox,   *)
(* its inbound loop, its StreamCollection and the ReceiveRecords consumers *)
(* created from it) together with the send() calls of its peers that       *)
(* target it.                                                              *)
(***************************************************************************)
EXTENDS Integers, Sequences, FiniteSets, TLC

\* ------------------------------------------------------------------ bounds
MaxSends == 2       \* number of send() calls (packets) in a run
MaxConsumers == 2   \* number of ReceiveRecords objects created in a run
MaxChunks == 2      \* chunks a producer pushes into one records stream
MaxSecret == 2      \* secrets a KeyExchange can draw
MaxIndex == 1       \* largest PRSS index generated at
MaxCoeff == 2       \* largest coefficient of the polynomials behind a proof
MaxUvChunks == 3    \* most chunks in a u or v vector to compress
MaxDomain == 2      \* most bytes in the site domain of a report
MaxRng == 2         \* states of the rng a report is encrypted with
MaxMask == 1        \* largest mask of the sharing of a random bit
WordBits == 6       \* width of the words standing for u128

\* --------------------------------------------------------------- constants
InboxCapacity == 16 \* channel(16) in Setup::new

SendIds == 1..MaxSends
ConsIds == 1..MaxConsumers

\* The helper whose transport instance is modelled, and the peers sending to it.
Dest == "ONE"
Origins == {"TWO", "THREE"}
QueryIds == {"q1", "q2"}
Steps == {"s1"}
Tasks == {"t1", "t2"}
Routes == {"ReceiveQuery", "Records", "PrepareQuery"}
FieldTypes == {"Fp31", "Fp32BitPrime"}
CallbackErrors == {"BadQuery"}

NoTask == "-"
NoKey == <<"-", "-", "-">>

\* StreamKey = (QueryId, HelperIdentity, Step)
StreamKeys == QueryIds \X Origins \X Steps

\* RecordsStream<S>: Waiting(Waker) | Ready(S) | Completed; Vacant is the
\* absent map entry.
Vacant == [st |-> "Vacant", waker |-> NoTask, stream |-> 0]
Waiting(w) == [st |-> "Waiting", waker |-> w, stream |-> 0]
Ready(s) == [st |-> "Ready", waker |-> NoTask, stream |-> s]
Completed == [st |-> "Completed", waker |-> NoTask, stream |-> 0]

VARIABLES
    msg,            \* per send() call: its packet and the position of the caller
    inbox,          \* the destination's mpsc channel: packets in FIFO order
    ack,            \* per packet: state of its oneshot ack channel
    ackVal,         \* per packet: the value sent on the ack channel
    ackSends,       \* per packet: number of ack.send calls made by the loop
    loop,           \* the inbound loop task: position, current packet, panic
    activeQueries,  \* the loop's HashSet of issued query ids
    cbCalls,        \* per packet: callback invocations made for it, in order
    taken,          \* history: the packets rx.recv() has yielded to the loop
    handled,        \* history: per packet, how its handling by the loop ended
    streams,        \* StreamCollection: StreamKey -> cell
    poisoned,       \* the collection mutex is poisoned
    stored,         \* history: per key, the streams ever stored in its cell
    handed,         \* history: per key, the streams ever returned by add_waker
    consumers,      \* ReceiveRecords objects
    notified,       \* per consumer: its task was woken since its last poll
    pushed,         \* per stream: chunks the producer has pushed so far
    closed,         \* per stream: the producer has ended the stream
    rd,             \* per stream: chunks read from it so far
    last,           \* history: the most recent operation and its outcome
    debug_assertions, \* the build has debug assertions enabled
    sk,             \* per helper and side: the secret of its KeyExchange
    endpoint,       \* per helper: its (left, right) generators once set up
    generated,      \* per helper: the output of its latest generation
    firstCall,      \* history: per helper, the output of its first generation
    zk,             \* a proof verifier's session: steps to do, shares, results
    rp,             \* a report codec's session: inputs, bytes, results
    sb              \* a run of solved_bits by the three helpers

vars == <<msg, inbox, ack, ackVal, ackSends, loop, activeQueries, cbCalls,
          taken, handled, streams, poisoned, stored, handed, consumers,
          notified, pushed, closed, rd, last,
          debug_assertions, sk, endpoint, generated, firstCall, zk, rp, sb>>

netVars == <<msg, inbox, ack, ackVal, ackSends, loop, activeQueries, cbCalls,
            taken, handled>>
collVars == <<streams, poisoned, stored, handed>>
consVars == <<consumers, notified>>
dataVars == <<pushed, closed, rd>>
transportVars == <<netVars, collVars, consVars, dataVars, last>>
prssVars == <<debug_assertions, sk, endpoint, generated, firstCall>>
zkpVars == <<zk>>
reportVars == <<rp>>
solvedVars == <<sb>>
\* What a step of the transport, and a step of PRSS, leaves alone.
offTransportVars == <<prssVars, zkpVars, reportVars, solvedVars>>
offPrssVars == <<transportVars, zkpVars, reportVars, solvedVars>>
offZkpVars == <<transportVars, prssVars, reportVars, solvedVars>>
offReportVars == <<transportVars, prssVars, zkpVars, solvedVars>>
offSolvedVars == <<transportVars, prssVars, zkpVars, reportVars>>

\* ------------------------------------------------------------ Addr & JSON
QueryTypes == {"TestMultiply"}
QueryConfigs == [field_type : FieldTypes, query_type : QueryTypes]
NoConfig == [field_type |-> "-", query_type |-> "-"]

\* serde_json::to_string(&config): the object as a token sequence.
ToJson(qc) ==
    <<"{", "field_type", qc.field_type, "query_type", qc.query_type, "}">>

\* The value that follows key `name` among the key/value pairs of an object.
JsonField(tokens, name) ==
    LET keys == {i \in 2..(Len(tokens) - 2) : i % 2 = 0 /\ tokens[i] = name}
    IN  IF keys = {} THEN "-" ELSE tokens[(CHOOSE i \in keys : TRUE) + 1]

\* A deserializer that reads both fields from the first pair of the object.
FromJson_first_pair(tokens) ==
    [field_type |-> tokens[3], query_type |-> tokens[3]]

\* Addr::into::<QueryConfig>: serde_json::from_str(&self.params).unwrap()
FromJson(tokens) ==
    [field_type |-> JsonField(tokens, "field_type"),
     query_type |-> JsonField(tokens, "query_type")]

\* serde_json::to_string(&PrepareQuery) / Addr::into::<PrepareQuery>
PrepareToJson(pq) ==
    <<"{", "query_id", pq.query_id, "field_type", pq.config.field_type,
      "query_type", pq.config.query_type, "}">>

PrepareFromJson(tokens) ==
    [query_id |-> JsonField(tokens, "query_id"), config |-> FromJson(tokens)]

\* Addr::from_route(origin, &route)
AddrFromRoute(origin, route, qid, step, extra) ==
    [route |-> route, origin |-> origin, query_id |-> qid, step |-> step,
     params |-> extra]

NoAddr == [route |-> "-", origin |-> "-", query_id |-> "-", step |-> "-",
           params |-> <<>>]

\* The (query_id, from, step) key the inbound loop builds for a Records packet.
KeyOf(addr) == <<addr.query_id, addr.origin, addr.step>>

\* ------------------------------------------------------- StreamCollection
NoPanic == "-"

\* add_stream that stores the stream of a Waiting cell without waking.
add_stream_no_wake(coll, key, stream) ==
    LET rs == coll[key] IN
    CASE rs.st \in {"Vacant", "Waiting"} ->
            [streams |-> [coll EXCEPT ![key] = Ready(stream)],
             wake |-> NoTask, panic |-> NoPanic,
             guardAtWake |-> FALSE, guardAtPanic |-> FALSE]
      [] OTHER ->
            [streams |-> coll,
             wake |-> NoTask,
             panic |-> "entry state expected to be waiting",
             guardAtWake |-> FALSE, guardAtPanic |-> FALSE]

\* add_stream that replaces a stream that is Ready instead of panicking.
add_stream_overwrite(coll, key, stream) ==
    LET rs == coll[key] IN
    CASE rs.st \in {"Vacant", "Ready"} ->
            [streams |-> [coll EXCEPT ![key] = Ready(stream)],
             wake |-> NoTask, panic |-> NoPanic,
             guardAtWake |-> FALSE, guardAtPanic |-> FALSE]
      [] rs.st = "Waiting" ->
            [streams |-> [coll EXCEPT ![key] = Ready(stream)],
             wake |-> rs.waker, panic |-> NoPanic,
             guardAtWake |-> TRUE, guardAtPanic |-> FALSE]
      [] OTHER ->
            [streams |-> coll,
             wake |-> NoTask,
             panic |-> "entry state expected to be waiting",
             guardAtWake |-> FALSE, guardAtPanic |-> FALSE]

\* add_stream that files every stream under the first origin.
add_stream_any_origin(coll, key, stream) ==
    LET k == <<key[1], "TWO", key[3]>>
        rs == coll[k]
    IN
    CASE rs.st = "Vacant" ->
            [streams |-> [coll EXCEPT ![k] = Ready(stream)],
             wake |-> NoTask, panic |-> NoPanic,
             guardAtWake |-> FALSE, guardAtPanic |-> FALSE]
      [] rs.st = "Waiting" ->
            [streams |-> [coll EXCEPT ![k] = Ready(stream)],
             wake |-> rs.waker, panic |-> NoPanic,
             guardAtWake |-> TRUE, guardAtPanic |-> FALSE]
      [] OTHER ->
            [streams |-> coll,
             wake |-> NoTask,
             panic |-> "entry state expected to be waiting",
             guardAtWake |-> FALSE, guardAtPanic |-> FALSE]

\* StreamCollection::add_stream on the map `coll`: the map afterwards, the
\* waker woken, the panic raised, and whether the MutexGuard is still alive
\* at the wake and at the panic.
add_stream(coll, key, stream) ==
    LET rs == coll[key] IN
    CASE rs.st = "Vacant" ->
            [streams |-> [coll EXCEPT ![key] = Ready(stream)],
             wake |-> NoTask, panic |-> NoPanic,
             guardAtWake |-> FALSE, guardAtPanic |-> FALSE]
      [] rs.st = "Waiting" ->
            [streams |-> [coll EXCEPT ![key] = Ready(stream)],
             wake |-> rs.waker, panic |-> NoPanic,
             guardAtWake |-> TRUE, guardAtPanic |-> FALSE]
      [] OTHER ->
            [streams |-> coll,
             wake |-> NoTask,
             panic |-> "entry state expected to be waiting",
             guardAtWake |-> FALSE, guardAtPanic |-> FALSE]

\* add_waker that raises the double-consume panic without dropping the guard.
add_waker_panic_under_lock(coll, key, waker) ==
    LET rs == coll[key] IN
    CASE rs.st = "Vacant" ->
            [streams |-> [coll EXCEPT ![key] = Waiting(waker)],
             ret |-> 0, panic |-> NoPanic, guardAtPanic |-> FALSE]
      [] rs.st = "Waiting" ->
            [streams |-> coll, ret |-> 0,
             panic |-> IF rs.waker = waker THEN NoPanic
                       ELSE "assertion failed: will_wake",
             guardAtPanic |-> FALSE]
      [] rs.st = "Ready" ->
            [streams |-> [coll EXCEPT ![key] = Completed],
             ret |-> rs.stream, panic |-> NoPanic, guardAtPanic |-> FALSE]
      [] OTHER ->
            [streams |-> coll, ret |-> 0,
             panic |-> "stream has been consumed already",
             guardAtPanic |-> TRUE]

\* add_waker that removes the entry of the stream it takes.
add_waker_removes_entry(coll, key, waker) ==
    LET rs == coll[key] IN
    CASE rs.st = "Vacant" ->
            [streams |-> [coll EXCEPT ![key] = Waiting(waker)],
             ret |-> 0, panic |-> NoPanic, guardAtPanic |-> FALSE]
      [] rs.st = "Waiting" ->
            [streams |-> coll, ret |-> 0,
             panic |-> IF rs.waker = waker THEN NoPanic
                       ELSE "assertion failed: will_wake",
             guardAtPanic |-> FALSE]
      [] rs.st = "Ready" ->
            [streams |-> [coll EXCEPT ![key] = Vacant],
             ret |-> rs.stream, panic |-> NoPanic, guardAtPanic |-> FALSE]
      [] OTHER ->
            [streams |-> coll, ret |-> 0,
             panic |-> "stream has been consumed already",
             guardAtPanic |-> FALSE]

\* add_waker that stores the new waker in a cell that is Waiting.
add_waker_replaces_waker(coll, key, waker) ==
    LET rs == coll[key] IN
    CASE rs.st \in {"Vacant", "Waiting"} ->
            [streams |-> [coll EXCEPT ![key] = Waiting(waker)],
             ret |-> 0, panic |-> NoPanic, guardAtPanic |-> FALSE]
      [] rs.st = "Ready" ->
            [streams |-> [coll EXCEPT ![key] = Completed],
             ret |-> rs.stream, panic |-> NoPanic, guardAtPanic |-> FALSE]
      [] OTHER ->
            [streams |-> coll, ret |-> 0,
             panic |-> "stream has been consumed already",
             guardAtPanic |-> FALSE]

\* StreamCollection::add_waker on the map `coll`: the map afterwards, the
\* stream returned (0 for None), the panic raised and whether the MutexGuard
\* is still alive at the panic.
add_waker(coll, key, waker) ==
    LET rs == coll[key] IN
    CASE rs.st = "Vacant" ->
            [streams |-> [coll EXCEPT ![key] = Waiting(waker)],
             ret |-> 0, panic |-> NoPanic, guardAtPanic |-> FALSE]
      [] rs.st = "Waiting" ->
            [streams |-> coll, ret |-> 0,
             panic |-> IF rs.waker = waker THEN NoPanic
                       ELSE "assertion failed: will_wake",
             guardAtPanic |-> FALSE]
      [] rs.st = "Ready" ->
            [streams |-> [coll EXCEPT ![key] = Completed],
             ret |-> rs.stream, panic |-> NoPanic, guardAtPanic |-> FALSE]
      [] OTHER ->
            [streams |-> coll, ret |-> 0,
             panic |-> "stream has been consumed already",
             guardAtPanic |-> FALSE]

\* self.inner.lock().unwrap(): a poisoned mutex makes every later lock panic.
PoisonPanic == "PoisonError"

\* ------------------------------------- the collection, called directly
\* Keys that differ only in their origin, only in their step, and in both.
CellKeys ==
    {<<"q1", "TWO", "s1">>, <<"q1", "THREE", "s1">>, <<"q1", "TWO", "s2">>}

\* ------------------------------------------------------------ InMemoryStream
Chunk(s, i) == <<s, i>>

\* InMemoryStream::poll_next on stream s: the next chunk, end of stream, or
\* Pending when the producer has neither pushed nor ended.
StreamPoll(s, nPushed, isClosed, nRead) ==
    IF nRead < nPushed THEN [out |-> "Item", item |-> Chunk(s, nRead + 1)]
    ELSE IF isClosed THEN [out |-> "End", item |-> <<>>]
    ELSE [out |-> "Pending", item |-> <<>>]

\* -------------------------------------------------------------------- Init
NoResult == [kind |-> "none", dest |-> "-", err |-> "-"]
\* How the handling of a packet ended: "-" while it has not, "Ok" or the
\* callback's error, or "panic"; with the query id a receive_query returned.
NotHandled == [res |-> "-", query_id |-> "-"]

NoLast == [op |-> "init", id |-> 0, key |-> NoKey, pre |-> Vacant,
           out |-> "-", panic |-> NoPanic, wake |-> NoTask]

\* The collection with no entry under any of the keys.
InitCollection(keys) ==
    /\ streams = [k \in keys |-> Vacant]
    /\ poisoned = FALSE
    /\ stored = [k \in keys |-> {}]
    /\ handed = [k \in keys |-> {}]

\* Everything of the transport but its collection, for the send() calls
\* numbered by ids: nothing was sent.
InitNetworkOf(ids) ==
    /\ msg = [s \in ids |-> [pc |-> "idle", addr |-> NoAddr, dest |-> "-",
                                 sent |-> NoConfig, result |-> NoResult]]
    /\ inbox = <<>>
    /\ ack = [s \in ids |-> "none"]
    /\ ackVal = [s \in ids |-> "-"]
    /\ ackSends = [s \in ids |-> 0]
    /\ loop = [pc |-> "recv", cur |-> 0, panic |-> NoPanic]
    /\ activeQueries = {}
    /\ cbCalls = [s \in ids |-> <<>>]
    /\ taken = {}
    /\ handled = [s \in ids |-> NotHandled]
    /\ consumers = [c \in ConsIds |-> [st |-> "none", key |-> NoKey,
                                       owner |-> NoTask, parked |-> FALSE,
                                       stream |-> 0, got |-> <<>>,
                                       ended |-> FALSE]]
    /\ notified = [c \in ConsIds |-> FALSE]
    /\ pushed = [s \in ids |-> 0]
    /\ closed = [s \in ids |-> FALSE]
    /\ rd = [s \in ids |-> 0]
    /\ last = NoLast

InitNetwork == InitNetworkOf(SendIds)

InitTransport == InitNetwork /\ InitCollection(StreamKeys)

\* ------------------------------------------------------------ Transport::send
\* The receiving half of the inbox is alive as long as the loop task is.
RxOpen == loop.pc # "panicked"

\* The calls of send() considered: (origin, route, query_id, step, params,
\* payload). The inbound loop reads the origin of Records packets only, so
\* the query packets all come from one peer.
RecordsInputs ==
    {[origin |-> o, route |-> "Records", qid |-> q, step |-> st,
      params |-> <<>>, sent |-> NoConfig] :
        o \in Origins, q \in QueryIds, st \in Steps}

QueryInputs ==
    {[origin |-> "TWO", route |-> "ReceiveQuery", qid |-> "-", step |-> "-",
      params |-> ToJson(qc), sent |-> qc] : qc \in QueryConfigs}
    \cup {[origin |-> "TWO", route |-> "PrepareQuery", qid |-> "-",
           step |-> "-",
           params |-> PrepareToJson([query_id |-> "q1", config |-> qc]),
           sent |-> qc] :
             qc \in {[field_type |-> "Fp31", query_type |-> "TestMultiply"]}}

SendInputs == RecordsInputs \cup QueryInputs

\* A channel that never blocks its senders.
HasCapacity_unbounded(queue) == TRUE

\* Sender::send acquires one of the InboxCapacity permits of the channel.
HasCapacity(queue) == Len(queue) < InboxCapacity

\* channel.send((addr, stream, ack_tx)).await: a closed channel gives
\* io::ErrorKind::ConnectionAborted, a full one blocks, otherwise the packet
\* is queued and the caller awaits the ack.
SendStartOf(s, inputs) ==
    /\ msg[s].pc = "idle"
    /\ \A r \in SendIds : r < s => msg[r].pc # "idle"
    /\ \E in \in inputs :
        LET addr == AddrFromRoute(in.origin, in.route, in.qid, in.step, in.params)
        IN  IF ~RxOpen
            THEN /\ msg' = [msg EXCEPT ![s] =
                        [pc |-> "returned", addr |-> addr, dest |-> Dest,
                         sent |-> in.sent,
                         result |-> [kind |-> "Io", dest |-> "-",
                                     err |-> "ConnectionAborted"]]]
                 /\ UNCHANGED <<inbox, ack>>
            ELSE /\ HasCapacity(inbox)
                 /\ msg' = [msg EXCEPT ![s] =
                        [pc |-> "queued", addr |-> addr, dest |-> Dest,
                         sent |-> in.sent, result |-> NoResult]]
                 /\ inbox' = Append(inbox, s)
                 /\ ack' = [ack EXCEPT ![s] = "open"]
    /\ last' = NoLast
    /\ UNCHANGED <<ackVal, ackSends, loop, activeQueries, cbCalls, taken, handled>>
    /\ UNCHANGED <<collVars, consVars, dataVars>>

\* The send() calls of a burst that overfills the inbox.
BurstIds == 1..(InboxCapacity + MaxSends)

\* The keys of the Records packets of one query.
CollKeys == {k \in StreamKeys : k[1] = "q1"}

\* send() of any route, the Records packets being those of one query.
SendStart(s) ==
    SendStartOf(s, {in \in SendInputs : in.route = "Records" => in.qid = "q1"})

\* A send() that reports a callback's error as a rejection.
SendResult_rejects_callback_error(s) ==
    IF ack[s] = "sent" /\ ackVal[s] = "Ok"
    THEN [kind |-> "Ok", dest |-> "-", err |-> "-"]
    ELSE [kind |-> "Rejected", dest |-> msg[s].dest, err |-> "channel closed"]

\* ack_rx.await.map_err(Rejected{dest}).and_then(identity)
SendResult(s) ==
    IF ack[s] = "sent"
    THEN IF ackVal[s] = "Ok"
         THEN [kind |-> "Ok", dest |-> "-", err |-> "-"]
         ELSE [kind |-> "Callback", dest |-> "-", err |-> ackVal[s]]
    ELSE [kind |-> "Rejected", dest |-> msg[s].dest, err |-> "channel closed"]

\* A send() that returns only once a consumer has taken its stream.
SendReturn_waits_consumer(s) ==
    /\ msg[s].pc = "queued"
    /\ ack[s] \in {"sent", "txDropped"}
    /\ msg[s].addr.route = "Records" => \E k \in StreamKeys : s \in handed[k]
    /\ msg' = [msg EXCEPT ![s].pc = "returned", ![s].result = SendResult(s)]
    /\ last' = NoLast
    /\ UNCHANGED <<inbox, ack, ackVal, ackSends, loop, activeQueries, cbCalls,
                   taken, handled>>
    /\ UNCHANGED <<collVars, consVars, dataVars>>

SendReturn(s) ==
    /\ msg[s].pc = "queued"
    /\ ack[s] \in {"sent", "txDropped"}
    /\ msg' = [msg EXCEPT ![s].pc = "returned", ![s].result = SendResult(s)]
    /\ last' = NoLast
    /\ UNCHANGED <<inbox, ack, ackVal, ackSends, loop, activeQueries, cbCalls,
                   taken, handled>>
    /\ UNCHANGED <<collVars, consVars, dataVars>>

\* The caller of send() is dropped while it awaits the ack: ack_rx is dropped.
SendCancel(s) ==
    /\ msg[s].pc = "queued"
    /\ ack[s] = "open"
    /\ msg' = [msg EXCEPT ![s].pc = "cancelled"]
    /\ ack' = [ack EXCEPT ![s] = "rxDropped"]
    /\ last' = NoLast
    /\ UNCHANGED <<inbox, ackVal, ackSends, loop, activeQueries, cbCalls,
                   taken, handled>>
    /\ UNCHANGED <<collVars, consVars, dataVars>>

\* ------------------------------------------------- InMemoryTransport::listen
Queued(q) == \E i \in 1..Len(inbox) : inbox[i] = q

\* A panic that leaves the ack senders of the packets alive.
AckAfterPanic_leaks(s, ackNow) == ackNow

\* The loop task panics while it handles packet s: unwinding drops the ack
\* sender of s (unless its value was sent) and the receiver rx, and with rx
\* every packet still queued, each with its ack sender.
AckAfterPanic(s, ackNow) ==
    [q \in DOMAIN ackNow |->
        IF (q = s \/ Queued(q)) /\ ackNow[q] = "open" THEN "txDropped"
        ELSE ackNow[q]]

\* A reply whose failure is ignored: the loop goes on to the next packet.
Reply_ignores_failure(s, val) ==
    IF ack[s] = "open"
    THEN [ack |-> [ack EXCEPT ![s] = "sent"],
          ackVal |-> [ackVal EXCEPT ![s] = val],
          ackSends |-> [ackSends EXCEPT ![s] = @ + 1],
          loop |-> [pc |-> "recv", cur |-> 0, panic |-> NoPanic],
          died |-> FALSE]
    ELSE [ack |-> ack,
          ackVal |-> ackVal,
          ackSends |-> [ackSends EXCEPT ![s] = @ + 1],
          loop |-> [pc |-> "recv", cur |-> 0, panic |-> NoPanic],
          died |-> FALSE]

\* A reply that acknowledges with Ok whatever the handler returned.
Reply_always_ok(s, val) ==
    IF ack[s] = "open"
    THEN [ack |-> [ack EXCEPT ![s] = "sent"],
          ackVal |-> [ackVal EXCEPT ![s] = "Ok"],
          ackSends |-> [ackSends EXCEPT ![s] = @ + 1],
          loop |-> [pc |-> "recv", cur |-> 0, panic |-> NoPanic],
          died |-> FALSE]
    ELSE [ack |-> AckAfterPanic(s, ack),
          ackVal |-> ackVal,
          ackSends |-> [ackSends EXCEPT ![s] = @ + 1],
          loop |-> [pc |-> "panicked", cur |-> s,
                    panic |-> "called unwrap on an Err value"],
          died |-> TRUE]

\* ack.send(result).unwrap() for packet s, as the last step of an iteration:
\* the new values of ack, ackVal, ackSends and loop.
Reply(s, val) ==
    IF ack[s] = "open"
    THEN [ack |-> [ack EXCEPT ![s] = "sent"],
          ackVal |-> [ackVal EXCEPT ![s] = val],
          ackSends |-> [ackSends EXCEPT ![s] = @ + 1],
          loop |-> [pc |-> "recv", cur |-> 0, panic |-> NoPanic],
          died |-> FALSE]
    ELSE [ack |-> AckAfterPanic(s, ack),
          ackVal |-> ackVal,
          ackSends |-> [ackSends EXCEPT ![s] = @ + 1],
          loop |-> [pc |-> "panicked", cur |-> s,
                    panic |-> "called unwrap on an Err value"],
          died |-> TRUE]

\* The tasks' consumers that a wake of task w schedules for a poll.
Wake(w, cons, note) ==
    [c \in ConsIds |->
        IF w # NoTask /\ cons[c].st = "Pending" /\ cons[c].owner = w
        THEN TRUE ELSE note[c]]

\* add_stream as the loop calls it, behind self.inner.lock().unwrap().
LockedAddStream(key, s) ==
    IF poisoned
    THEN [streams |-> streams, wake |-> NoTask, panic |-> PoisonPanic,
          guardAtWake |-> FALSE, guardAtPanic |-> FALSE]
    ELSE add_stream(streams, key, s)

\* rx.recv() yields the head packet. A Records packet is handled to the end
\* (add_stream, then the ack); a query packet starts its callback, which the
\* loop awaits.
LoopRecvWhen(free) ==
    /\ free
    /\ inbox # <<>>
    /\ taken' = taken \cup {Head(inbox)}
    /\ LET s == Head(inbox)
           addr == msg[s].addr
           key == KeyOf(addr)
       IN
       IF addr.route = "Records"
       THEN LET r == LockedAddStream(key, s)
                rep == Reply(s, "Ok")
            IN  /\ last' = [op |-> "add_stream", id |-> s, key |-> key,
                            pre |-> streams[key], out |-> "-",
                            panic |-> r.panic, wake |-> r.wake]
                /\ UNCHANGED <<activeQueries, cbCalls, consumers, dataVars, msg,
                               handed>>
                /\ IF r.panic # NoPanic
                   THEN /\ loop' = [pc |-> "panicked", cur |-> s, panic |-> r.panic]
                        /\ ack' = AckAfterPanic(s, ack)
                        /\ inbox' = <<>>
                        /\ poisoned' = (poisoned \/ r.guardAtPanic)
                        /\ handled' = [handled EXCEPT ![s].res = "panic"]
                        /\ UNCHANGED <<ackVal, ackSends, streams, stored, notified>>
                   ELSE /\ streams' = r.streams
                        /\ stored' = [stored EXCEPT ![key] = @ \cup {s}]
                        /\ notified' = Wake(r.wake, consumers, notified)
                        /\ ack' = rep.ack
                        /\ ackVal' = rep.ackVal
                        /\ ackSends' = rep.ackSends
                        /\ loop' = rep.loop
                        /\ inbox' = IF rep.died THEN <<>> ELSE Tail(inbox)
                        /\ handled' = [handled EXCEPT ![s].res = "Ok"]
                        /\ UNCHANGED poisoned
       ELSE /\ loop' = [pc |-> "callback", cur |-> s, panic |-> NoPanic]
            /\ inbox' = Tail(inbox)
            /\ cbCalls' = [cbCalls EXCEPT ![s] = Append(@,
                    IF addr.route = "ReceiveQuery"
                    THEN [cb |-> "receive_query", arg |-> FromJson(addr.params),
                          query_id |-> "-"]
                    ELSE [cb |-> "prepare_query",
                          arg |-> PrepareFromJson(addr.params).config,
                          query_id |-> PrepareFromJson(addr.params).query_id])]
            /\ last' = NoLast
            /\ UNCHANGED <<msg, ack, ackVal, ackSends, activeQueries, handled>>
            /\ UNCHANGED <<collVars, consVars, dataVars>>

\* A loop that takes the next message while a callback is still awaited.
LoopRecv_overlapping == LoopRecvWhen(loop.pc \in {"recv", "callback"})

\* The loop is back at rx.recv().await: the handling of the last message
\* has ended.
LoopRecv == LoopRecvWhen(loop.pc = "recv")

\* What a callback can return: Ok (with the query id, for receive_query) or
\* an error.
CallbackResults(route) ==
    IF route = "ReceiveQuery"
    THEN {[ok |-> TRUE, query_id |-> q, err |-> "-"] : q \in QueryIds}
         \cup {[ok |-> FALSE, query_id |-> "-", err |-> e] : e \in CallbackErrors}
    ELSE {[ok |-> TRUE, query_id |-> "-", err |-> "-"]}
         \cup {[ok |-> FALSE, query_id |-> "-", err |-> e] : e \in CallbackErrors}

\* An insert whose result is not asserted.
DuplicateQuery_unchecked(route, res) == FALSE

\* assert!(active_queries.insert(query_id)): TRUE when the assertion fails.
DuplicateQuery(route, res) ==
    route = "ReceiveQuery" /\ res.ok /\ res.query_id \in activeQueries

\* The awaited callback returns: the query id of a successful receive_query
\* is recorded (a repeated id panics), then the result is sent as the ack.
LoopCallbackDone ==
    /\ loop.pc = "callback"
    /\ LET s == loop.cur
           route == msg[s].addr.route
       IN  \E res \in CallbackResults(route) :
            LET rep == Reply(s, IF res.ok THEN "Ok" ELSE res.err) IN
            /\ last' = NoLast
            /\ IF DuplicateQuery(route, res)
               THEN /\ loop' = [pc |-> "panicked", cur |-> s,
                                panic |-> "the same query id is generated twice"]
                    /\ ack' = AckAfterPanic(s, ack)
                    /\ inbox' = <<>>
                    /\ handled' = [handled EXCEPT ![s] =
                            [res |-> "panic", query_id |-> res.query_id]]
                    /\ UNCHANGED <<ackVal, ackSends, activeQueries>>
               ELSE /\ activeQueries' =
                            IF route = "ReceiveQuery" /\ res.ok
                            THEN activeQueries \cup {res.query_id}
                            ELSE activeQueries
                    /\ ack' = rep.ack
                    /\ ackVal' = rep.ackVal
                    /\ ackSends' = rep.ackSends
                    /\ loop' = rep.loop
                    /\ inbox' = IF rep.died THEN <<>> ELSE inbox
                    /\ handled' = [handled EXCEPT ![s] =
                            [res |-> IF res.ok THEN "Ok" ELSE res.err,
                             query_id |-> res.query_id]]
    /\ UNCHANGED <<msg, cbCalls, taken>>
    /\ UNCHANGED <<collVars, consVars, dataVars>>

\* ---------------------------------------------------------- ReceiveRecords
\* Transport::receive(from, (query_id, step)): a new ReceiveRecords in state
\* Pending(key, collection). The task that polls it is known at its first poll.
ReceiveOf(c, keys) ==
    /\ consumers[c].st = "none"
    /\ \A d \in ConsIds : d < c => consumers[d].st # "none"
    /\ \E key \in keys :
        /\ consumers' = [consumers EXCEPT ![c] =
                [st |-> "Pending", key |-> key, owner |-> NoTask,
                 parked |-> FALSE, stream |-> 0, got |-> <<>>,
                 ended |-> FALSE]]
        /\ last' = NoLast
    /\ UNCHANGED <<netVars, collVars, notified, dataVars>>

Receive(c) == ReceiveOf(c, CollKeys)

\* receive() of the first consumer of a run.
ReceiveFirst(c) ==
    /\ \A d \in ConsIds : consumers[d].st = "none"
    /\ Receive(c)

\* add_waker as poll_next calls it, behind self.inner.lock().unwrap().
LockedAddWaker(key, w) ==
    IF poisoned
    THEN [streams |-> streams, ret |-> 0, panic |-> PoisonPanic,
          guardAtPanic |-> FALSE]
    ELSE add_waker(streams, key, w)

\* ------------------------------------------------- calls on the collection
\* collection.add_stream(key, stream), by any thread.
AddStream(key, s) ==
    LET r == LockedAddStream(key, s) IN
    /\ streams' = r.streams
    /\ poisoned' = (poisoned \/ (r.panic # NoPanic /\ r.guardAtPanic))
    /\ stored' = IF r.panic = NoPanic THEN [stored EXCEPT ![key] = @ \cup {s}]
                 ELSE stored
    /\ last' = [op |-> "add_stream", id |-> s, key |-> key,
                pre |-> streams[key], out |-> "-",
                panic |-> r.panic, wake |-> r.wake]
    /\ UNCHANGED <<netVars, handed, consVars, dataVars>>

\* collection.add_waker(&key, waker) with the waker of task w, by any thread.
AddWaker(key, w) ==
    LET r == LockedAddWaker(key, w) IN
    /\ streams' = r.streams
    /\ poisoned' = (poisoned \/ (r.panic # NoPanic /\ r.guardAtPanic))
    /\ handed' = IF r.ret = 0 THEN handed ELSE [handed EXCEPT ![key] = @ \cup {r.ret}]
    /\ last' = [op |-> "add_waker", id |-> r.ret, key |-> key,
                pre |-> streams[key],
                out |-> IF r.panic # NoPanic THEN "Panic"
                        ELSE IF r.ret = 0 THEN "None" ELSE "Some",
                panic |-> r.panic, wake |-> w]
    /\ UNCHANGED <<netVars, stored, consVars, dataVars>>

\* A consumer that discards the chunk its poll obtained.
Delegate_drop_item(cons, s, p) ==
    [cons EXCEPT !.st = "Ready", !.stream = s,
                 !.ended = IF p.out = "End" THEN TRUE ELSE @]

\* A consumer that polls the stream add_waker returned without keeping it:
\* it is still Pending afterwards.
Delegate_stays_pending(cons, s, p) ==
    [cons EXCEPT !.st = "Pending", !.stream = 0,
                 !.got = IF p.out = "Item" THEN Append(@, p.item) ELSE @,
                 !.ended = IF p.out = "End" THEN TRUE ELSE @]

\* The consumer after InMemoryStream::poll_next answered `p` for stream s.
Delegate(cons, s, p) ==
    [cons EXCEPT !.st = "Ready", !.stream = s,
                 !.got = IF p.out = "Item" THEN Append(@, p.item) ELSE @,
                 !.ended = IF p.out = "End" THEN TRUE ELSE @]

\* ReceiveRecordsInner::poll_next with the waker of task w. In Pending it
\* calls add_waker; on Some(stream) it becomes Ready(stream) and, staying
\* in the loop, polls the stream in the same call. In Ready it polls the
\* stream directly.
Poll(c, w) ==
    /\ consumers[c].st \in {"Pending", "Ready"}
    /\ notified' = [notified EXCEPT ![c] = FALSE]
    /\ UNCHANGED <<netVars, pushed, closed>>
    /\ LET me == [consumers[c] EXCEPT !.owner = w, !.parked = FALSE]
           key == me.key
       IN
       IF me.st = "Pending"
       THEN LET r == LockedAddWaker(key, w)
                s == r.ret
                p == StreamPoll(s, pushed[s], closed[s], rd[s])
            IN  /\ streams' = r.streams
                /\ poisoned' = (poisoned \/ (r.panic # NoPanic /\ r.guardAtPanic))
                /\ UNCHANGED stored
                /\ handed' = IF s = 0 THEN handed
                             ELSE [handed EXCEPT ![key] = @ \cup {s}]
                /\ IF r.panic # NoPanic
                   THEN /\ consumers' = [consumers EXCEPT ![c] = me]
                        /\ last' = [op |-> "poll", id |-> c, key |-> key,
                                    pre |-> streams[key], out |-> "Panic",
                                    panic |-> r.panic, wake |-> NoTask]
                        /\ UNCHANGED rd
                   ELSE IF s = 0
                   THEN /\ consumers' = [consumers EXCEPT ![c] =
                                            [me EXCEPT !.parked = TRUE]]
                        /\ last' = [op |-> "poll", id |-> c, key |-> key,
                                    pre |-> streams[key], out |-> "Pending",
                                    panic |-> NoPanic, wake |-> NoTask]
                        /\ UNCHANGED rd
                   ELSE /\ consumers' = [consumers EXCEPT ![c] = Delegate(me, s, p)]
                        /\ rd' = [rd EXCEPT ![s] = IF p.out = "Item" THEN @ + 1 ELSE @]
                        /\ last' = [op |-> "poll", id |-> c, key |-> key,
                                    pre |-> streams[key], out |-> p.out,
                                    panic |-> NoPanic, wake |-> NoTask]
       ELSE LET s == me.stream
                p == StreamPoll(s, pushed[s], closed[s], rd[s])
            IN  /\ consumers' = [consumers EXCEPT ![c] = Delegate(me, s, p)]
                /\ rd' = [rd EXCEPT ![s] = IF p.out = "Item" THEN @ + 1 ELSE @]
                /\ last' = [op |-> "poll_ready", id |-> c, key |-> key,
                            pre |-> streams[key], out |-> p.out,
                            panic |-> NoPanic, wake |-> NoTask]
                /\ UNCHANGED collVars

\* A drop that unregisters the waker: the Waiting cell of the key is removed.
Drop_unregisters(c) ==
    /\ consumers[c].st \in {"Pending", "Ready"}
    /\ consumers' = [consumers EXCEPT ![c] =
            [st |-> "dropped", key |-> @.key, owner |-> NoTask,
             parked |-> FALSE, stream |-> 0, got |-> <<>>, ended |-> FALSE]]
    /\ notified' = [notified EXCEPT ![c] = FALSE]
    /\ streams' = [streams EXCEPT ![consumers[c].key] =
                        IF @.st = "Waiting" THEN Vacant ELSE @]
    /\ last' = NoLast
    /\ UNCHANGED <<netVars, poisoned, stored, handed, dataVars>>

\* The ReceiveRecords is dropped; nothing unregisters its waker.
Drop(c) ==
    /\ consumers[c].st \in {"Pending", "Ready"}
    /\ consumers' = [consumers EXCEPT ![c] =
            [st |-> "dropped", key |-> @.key, owner |-> NoTask,
             parked |-> FALSE, stream |-> 0, got |-> <<>>, ended |-> FALSE]]
    /\ notified' = [notified EXCEPT ![c] = FALSE]
    /\ last' = NoLast
    /\ UNCHANGED <<netVars, collVars, dataVars>>

\* ------------------------------------------------- the producer of a stream
\* The producer of the stream given to send() number s yields one more chunk.
Push(s) ==
    /\ msg[s].addr.route = "Records"
    /\ ~closed[s]
    /\ pushed[s] < MaxChunks
    /\ pushed' = [pushed EXCEPT ![s] = @ + 1]
    /\ last' = NoLast
    /\ UNCHANGED <<netVars, collVars, consVars, closed, rd>>

\* The producer ends the stream (drops the channel sender).
Close(s) ==
    /\ msg[s].addr.route = "Records"
    /\ ~closed[s]
    /\ closed' = [closed EXCEPT ![s] = TRUE]
    /\ last' = NoLast
    /\ UNCHANGED <<netVars, collVars, consVars, pushed, rd>>

\* ------------------------------------------------------------------- PRSS
\* The three helpers on a ring: the right peer of h is h + 1.
Helpers == 1..3
Right(h) == (h % 3) + 1
Left(h) == ((h + 1) % 3) + 1
Sides == {"left", "right"}

\* u128 values, narrowed to WordBits bits.
Modulus == 2 ^ WordBits
PrssIndexes == 0..MaxIndex
Contexts == {"step"}
ContextCode(context) == IF context = "step" THEN 3 ELSE 0

RECURSIVE Pow(_, _, _)
Pow(b, e, m) == IF e = 0 THEN 1 % m ELSE (b * Pow(b, e - 1, m)) % m

\* a ^ b on unsigned integers of n bits
RECURSIVE Xor(_, _, _)
Xor(a, b, n) ==
    IF n = 0 THEN 0
    ELSE ((a + b) % 2) + 2 * Xor(a \div 2, b \div 2, n - 1)

\* EphemeralSecret::random_from_rng: the secrets a KeyExchange may draw.
SecretKeys == 1..MaxSecret

\* x25519: a Diffie-Hellman group, here the powers of DhBase modulo DhPrime.
DhPrime == 23
DhBase == 5
public_key(secret) == Pow(DhBase, secret, DhPrime)
diffie_hellman(secret, pk) == Pow(pk, secret, DhPrime)

\* Hkdf::<Sha256>::new(None, ikm) and Hkdf::expand(context, okm): keyed
\* mixing functions of their inputs.
Hkdf_new(ikm) == [prk |-> (ikm * ikm + 1) % Modulus]
Hkdf_expand(kdf, context) == (kdf.prk * 5 + ContextCode(context)) % Modulus

\* Aes256::encrypt_block: under each key a permutation of the blocks.
encrypt_block(k, block) == (block * (2 * k + 1) + k) % Modulus

SelfKeyExchange == "self key exchange detected"

\* A key exchange that runs Diffie-Hellman against its own public key.
key_exchange_own_key(secret, pk) ==
    [panic |-> NoPanic,
     kdf |-> Hkdf_new(diffie_hellman(secret, public_key(secret)))]

\* KeyExchange::key_exchange: the GeneratorFactory, or the panic of the
\* debug assertion in a build that has it.
key_exchange(secret, pk) ==
    IF debug_assertions /\ pk = public_key(secret)
    THEN [panic |-> SelfKeyExchange, kdf |-> Hkdf_new(0)]
    ELSE [panic |-> NoPanic, kdf |-> Hkdf_new(diffie_hellman(secret, pk))]

\* GeneratorFactory::generator
generator(factory, context) == [cipher |-> Hkdf_expand(factory.kdf, context)]

\* A generator that keeps a position: its output depends on the index of the
\* generation before it.
generate_positional(gen, index) ==
    LET pos == generated[1].index + generated[2].index + generated[3].index + 3
    IN  Xor(encrypt_block(gen.cipher, (index + pos) % Modulus), index, WordBits)

\* Generator::generate
generate(gen, index) == Xor(encrypt_block(gen.cipher, index), index, WordBits)

\* SharedRandomness::generate_arrays::<_, U1> of a helper's endpoint: one
\* value of the generator shared with the left peer and one of the generator
\* shared with the right peer, each as an array of length one.
generate_arrays(ep, index) ==
    <<  <<generate(ep.left, index)>>, <<generate(ep.right, index)>>  >>

\* SharedRandomness::generate_values
generate_values(ep, index) ==
    LET lr == generate_arrays(ep, index) IN <<lr[1][1], lr[2][1]>>

\* The prime field the generated values are mapped into.
PRIME == 31
from_random_u128(src) == src % PRIME

\* FromRandom::from_random for T: FromRandomU128
from_random(src) == from_random_u128(src[1])

\* <(T, T) as FromPrss>::from_prss, reached by generate and generate_fields
from_prss(ep, index) ==
    LET lr == generate_arrays(ep, index)
    IN  <<from_random(lr[1]), from_random(lr[2])>>

\* Replicated::new
Replicated(l, r) == [left |-> l, right |-> r]

\* <Replicated<T> as FromPrss>::from_prss
from_prss_replicated(ep, index) ==
    LET lr == from_prss(ep, index) IN Replicated(lr[1], lr[2])

\* Subtraction of the prime field.
field_sub(l, r) == (l + PRIME - r) % PRIME

\* A zero that adds the two values instead of subtracting them.
zero_adds(ep, index) ==
    LET lr == from_prss(ep, index) IN (lr[1] + lr[2]) % PRIME

\* SharedRandomness::zero
zero(ep, index) ==
    LET lr == from_prss(ep, index) IN field_sub(lr[1], lr[2])

\* ----------------------------------------------------- prime field, Lagrange
\* The prime field of PRIME elements.
Field == 0..(PRIME - 1)
field_add(a, b) == (a + b) % PRIME
field_mul(a, b) == (a * b) % PRIME
\* Inverse by Fermat's little theorem: v^(p-2).
field_inv(v) == Pow(v, PRIME - 2, PRIME)
\* An integer, possibly negative, as a field element.
ToField(v) == ((v % PRIME) + PRIME) % PRIME

\* The product of (x - j) over the points j of 0..n-1 other than i.
RECURSIVE ProductExcept(_, _, _)
ProductExcept(x, i, n) ==
    IF n = 0 THEN 1
    ELSE LET rest == ProductExcept(x, i, n - 1)
         IN  IF n - 1 = i THEN rest ELSE field_mul(rest, ToField(x - (n - 1)))

\* CanonicalLagrangeDenominator::<F, N>::new(): D[i] = 1 / prod_{j # i} (i - j),
\* the entry of point i at position i + 1.
CanonicalLagrangeDenominator(n) ==
    [i \in 1..n |-> field_inv(ProductExcept(i - 1, i - 1, n))]

\* LagrangeTable::<F, N, 1>::new(&denominator, &r): T[i] = D[i] * prod_{j # i} (r - j)
LagrangeTable(denominator, r) ==
    [i \in 1..Len(denominator) |->
        field_mul(denominator[i], ProductExcept(r, i - 1, Len(denominator)))]

RECURSIVE DotProduct(_, _, _)
DotProduct(table, y, n) ==
    IF n = 0 THEN 0
    ELSE field_add(DotProduct(table, y, n - 1), field_mul(y[n], table[n]))

\* LagrangeTable::eval(y)[0]
eval(table, y) == DotProduct(table, y, Len(table))

\* ------------------------------------------------------------ ProofVerifier
IndexOutOfBounds == "index out of bounds"

\* A sum of the entries that exist, skipping an index past the end of zkp.
RECURSIVE SumFirst_clamped(_, _)
SumFirst_clamped(zkp, lambda) ==
    IF lambda = 0 THEN [panic |-> NoPanic, sum |-> 0]
    ELSE LET before == SumFirst_clamped(zkp, lambda - 1)
         IN  [panic |-> NoPanic,
              sum |-> IF lambda > Len(zkp) THEN before.sum
                      ELSE field_add(before.sum, zkp[lambda])]

\* (0..lambda).fold(F::ZERO, |acc, i| acc + zkp[i]): the sum, or the panic of
\* an index past the end of zkp.
RECURSIVE SumFirst(_, _)
SumFirst(zkp, lambda) ==
    IF lambda = 0 THEN [panic |-> NoPanic, sum |-> 0]
    ELSE LET before == SumFirst(zkp, lambda - 1)
         IN  IF before.panic # NoPanic \/ lambda > Len(zkp)
             THEN [panic |-> IndexOutOfBounds, sum |-> 0]
             ELSE [panic |-> NoPanic, sum |-> field_add(before.sum, zkp[lambda])]

\* A verifier whose zero share subtracts the value it has just computed.
verify_proof_subtracts_new(lambda, out_share, zkp, r) ==
    LET g_r_share == eval(LagrangeTable(CanonicalLagrangeDenominator(Len(zkp)), r), zkp)
        sum_share == SumFirst(zkp, lambda)
    IN  [panic |-> sum_share.panic, out_share |-> g_r_share,
         zero_share |-> field_sub(sum_share.sum, g_r_share)]

\* A verifier whose sum runs over every entry of zkp.
verify_proof_sums_all(lambda, out_share, zkp, r) ==
    LET g_r_share == eval(LagrangeTable(CanonicalLagrangeDenominator(Len(zkp)), r), zkp)
        sum_share == SumFirst(zkp, Len(zkp))
    IN  [panic |-> SumFirst(zkp, lambda).panic, out_share |-> g_r_share,
         zero_share |-> field_sub(sum_share.sum, out_share)]

\* A verifier that interpolates through the first lambda points only.
verify_proof_short_table(lambda, out_share, zkp, r) ==
    LET points == IF lambda < Len(zkp) THEN lambda ELSE Len(zkp)
        g_r_share == eval(LagrangeTable(CanonicalLagrangeDenominator(points), r), zkp)
        sum_share == SumFirst(zkp, lambda)
    IN  [panic |-> sum_share.panic, out_share |-> g_r_share,
         zero_share |-> field_sub(sum_share.sum, out_share)]

\* A verifier whose fold starts from one instead of zero.
verify_proof_fold_from_one(lambda, out_share, zkp, r) ==
    LET g_r_share == eval(LagrangeTable(CanonicalLagrangeDenominator(Len(zkp)), r), zkp)
        sum_share == SumFirst(zkp, lambda)
    IN  [panic |-> sum_share.panic, out_share |-> g_r_share,
         zero_share |-> field_sub(field_add(1, sum_share.sum), out_share)]

\* ProofVerifier::verify_proof::<lambda, P>(out_share, zkp, r), P the length
\* of zkp: the new out_share and the zero_share, or a panic.
verify_proof(lambda, out_share, zkp, r) ==
    LET denominator_g == CanonicalLagrangeDenominator(Len(zkp))
        lagrange_table_g == LagrangeTable(denominator_g, r)
        g_r_share == eval(lagrange_table_g, zkp)
        sum_share == SumFirst(zkp, lambda)
    IN  IF sum_share.panic # NoPanic
        THEN [panic |-> sum_share.panic, out_share |-> 0, zero_share |-> 0]
        ELSE [panic |-> NoPanic, out_share |-> g_r_share,
              zero_share |-> field_sub(sum_share.sum, out_share)]

ZeroChunk(lambda) == [i \in 1..lambda |-> 0]

\* The loop of recurse_u_or_v over the remaining polynomials, with the chunks
\* pushed so far, the chunk being filled and the index into it.
RECURSIVE RecurseLoop(_, _, _, _, _, _)
RecurseLoop(lambda, table, polynomials, vec, chunk, index) ==
    IF polynomials = <<>>
    THEN [panic |-> NoPanic,
          vec |-> IF index > 0 THEN Append(vec, chunk) ELSE vec]
    ELSE LET value_at_r == eval(table, Head(polynomials))
             full == index >= lambda
             vec1 == IF full THEN Append(vec, chunk) ELSE vec
             chunk1 == IF full THEN ZeroChunk(lambda) ELSE chunk
             index1 == IF full THEN 0 ELSE index
         IN  IF index1 >= lambda
             THEN [panic |-> IndexOutOfBounds, vec |-> vec1]
             ELSE RecurseLoop(lambda, table, Tail(polynomials), vec1,
                              [chunk1 EXCEPT ![index1 + 1] = value_at_r],
                              index1 + 1)

\* A compression that drops a chunk that is not full.
recurse_u_or_v_drops_partial(lambda, u_or_v, r) ==
    LET res == RecurseLoop(lambda,
                   LagrangeTable(CanonicalLagrangeDenominator(lambda), r),
                   u_or_v, <<>>, ZeroChunk(lambda), 0)
    IN  [res EXCEPT !.vec = IF lambda = 0 \/ Len(u_or_v) % lambda = 0
                            THEN @
                            ELSE SubSeq(@, 1, Len(@) - 1)]

\* ProofVerifier::recurse_u_or_v::<_, _, lambda>(u_or_v_iterator, r)
recurse_u_or_v(lambda, u_or_v, r) ==
    LET denominator_p_or_q == CanonicalLagrangeDenominator(lambda)
        lagrange_table_p_or_q_r == LagrangeTable(denominator_p_or_q, r)
    IN  RecurseLoop(lambda, lagrange_table_p_or_q_r, u_or_v, <<>>,
                    ZeroChunk(lambda), 0)

\* --------------------------------------------------- a verifier's session
\* A session is the list of the steps its caller makes, the out_share it
\* carries from one verify_proof to the next, and the u or v vector it
\* compresses; log keeps every step made with its inputs and its result.
NoZkp == zk = [steps |-> <<>>, out_share |-> 0, uv |-> <<>>, log |-> <<>>]

VerifyStep(lambda, zkp, r, poly) ==
    [op |-> "verify", lambda |-> lambda, zkp |-> zkp, r |-> r, poly |-> poly]
RecurseStep(lambda, r) == [op |-> "recurse", lambda |-> lambda, r |-> r]
TrimStep(weight) == [op |-> "trim", weight |-> weight]

\* make_chunks::<_, N>(a)
make_chunks(a, n) ==
    [k \in 1..(Len(a) \div n) |-> SubSeq(a, (k - 1) * n + 1, k * n)]

\* The rounds of the test sample_proof_u.
SampleProofU ==
    [steps |-> << VerifyStep(4, <<0, 0, 13, 17, 11, 25, 7>>, 22, <<>>),
                  RecurseStep(4, 22),
                  VerifyStep(4, <<11, 25, 17, 9, 22, 23, 3>>, 17, <<>>),
                  RecurseStep(4, 17),
                  TrimStep(12),
                  VerifyStep(3, <<21, 1, 6, 25, 1>>, 30, <<>>),
                  RecurseStep(3, 30) >>,
     out_share |-> 27,
     uv |-> make_chunks(<<0, 30, 0, 16, 0, 1, 0, 15, 0, 0, 0, 16, 0, 30, 0, 16,
                          29, 1, 1, 15, 0, 0, 1, 15, 2, 30, 30, 16, 0, 0, 30, 16>>, 4),
     log |-> <<>>]

\* The rounds of the test sample_proof_v.
SampleProofV ==
    [steps |-> << VerifyStep(4, <<0, 30, 16, 13, 25, 3, 6>>, 22, <<>>),
                  RecurseStep(4, 22),
                  VerifyStep(4, <<1, 12, 29, 30, 7, 7, 3>>, 17, <<>>),
                  RecurseStep(4, 17),
                  TrimStep(1),
                  VerifyStep(3, <<22, 14, 4, 20, 16>>, 30, <<>>),
                  RecurseStep(3, 30) >>,
     out_share |-> 0,
     uv |-> make_chunks(<<0, 0, 0, 30, 0, 0, 0, 1, 30, 30, 30, 30, 0, 0, 30, 30,
                          0, 30, 0, 30, 0, 0, 0, 1, 0, 0, 1, 1, 0, 0, 1, 1>>, 4),
     log |-> <<>>]

\* The value at x of the polynomial with the coefficients poly, lowest first.
RECURSIVE PolyAt(_, _)
PolyAt(poly, x) ==
    IF poly = <<>> THEN 0
    ELSE field_add(Head(poly), field_mul(ToField(x), PolyAt(Tail(poly), x)))

\* A proof of length P: the values of a polynomial of degree < P at 0..P-1.
ProofOf(poly) == [i \in 1..Len(poly) |-> PolyAt(poly, i - 1)]

SeqsUpTo(S, n) == UNION {[1..k -> S] : k \in 0..n}

\* The shapes (lambda, P) verify_proof is called with, beside the samples'.
Shapes == {[lambda |-> 2, P |-> 3], [lambda |-> 1, P |-> 1],
           [lambda |-> 0, P |-> 1], [lambda |-> 3, P |-> 2]}
Coeffs == 0..MaxCoeff
OutShares == {0, 5, 30}
\* The widths recurse_u_or_v is called with, beside the samples', and the
\* entries of the chunks.
Widths == {0, 1, 2}
ChunkValues == {1, 30}

\* One call of verify_proof.
VerifySessions ==
    UNION {{[steps |-> <<VerifyStep(sh.lambda, ProofOf(poly), r, poly)>>,
             out_share |-> o, uv |-> <<>>, log |-> <<>>] :
               poly \in [1..sh.P -> Coeffs], r \in Field, o \in OutShares} :
           sh \in Shapes}

\* One call of recurse_u_or_v.
RecurseSessions ==
    UNION {{[steps |-> <<RecurseStep(w, r)>>, out_share |-> 0, uv |-> u,
             log |-> <<>>] :
               u \in SeqsUpTo([1..w -> ChunkValues], MaxUvChunks), r \in Field} :
           w \in Widths}

\* The caller verifies the proof of the round with the out_share it holds and
\* keeps the new out_share.
VerifyProof ==
    /\ zk.steps # <<>>
    /\ Head(zk.steps).op = "verify"
    /\ LET step == Head(zk.steps)
           res == verify_proof(step.lambda, zk.out_share, step.zkp, step.r)
       IN  zk' = [steps |-> IF res.panic # NoPanic THEN <<>> ELSE Tail(zk.steps),
                  out_share |-> IF res.panic # NoPanic THEN zk.out_share
                                ELSE res.out_share,
                  uv |-> zk.uv,
                  log |-> Append(zk.log,
                      [op |-> "verify", step |-> step,
                       out_share |-> zk.out_share, res |-> res])]
    /\ UNCHANGED offZkpVars

\* The caller compresses its u or v vector at the challenge of the round.
RecurseUOrV ==
    /\ zk.steps # <<>>
    /\ Head(zk.steps).op = "recurse"
    /\ LET step == Head(zk.steps)
           res == recurse_u_or_v(step.lambda, zk.uv, step.r)
       IN  zk' = [steps |-> IF res.panic # NoPanic THEN <<>> ELSE Tail(zk.steps),
                  out_share |-> zk.out_share,
                  uv |-> IF res.panic # NoPanic THEN zk.uv ELSE res.vec,
                  log |-> Append(zk.log,
                      [op |-> "recurse", step |-> step, uv |-> zk.uv,
                       res |-> res])]
    /\ UNCHANGED offZkpVars

\* The final proof trim of the samples: the random weight and the first two
\* entries of the compressed vector make the one chunk of the last round.
FinalTrim ==
    /\ zk.steps # <<>>
    /\ Head(zk.steps).op = "trim"
    /\ zk' = [zk EXCEPT !.steps = Tail(@),
                        !.uv = << <<Head(zk.steps).weight,
                                    zk.uv[1][1], zk.uv[1][2]>> >>,
                        !.log = Append(@, [op |-> "trim", step |-> Head(zk.steps),
                                           uv |-> zk.uv])]
    /\ UNCHANGED offZkpVars

\* ------------------------------------------- the three verifiers of a proof
\* Each helper holds an additive share of the round's proof (out_share and
\* zkp) or of the u or v vector, and all use the same challenge r.
VecAdd(x, y) == [i \in 1..Len(x) |-> field_add(x[i], y[i])]
ChunksAdd(u, v) == [k \in 1..Len(u) |-> VecAdd(u[k], v[k])]

ShareValues == {1, 30}
Challenges == {1, 3, 22, 30}
ShareShape == [lambda |-> 2, P |-> 3]
ProofShares ==
    {[out_share |-> o, zkp |-> z] :
        o \in {5, 30}, z \in [1..ShareShape.P -> ShareValues]}
LastProofShares ==
    {[out_share |-> 27, zkp |-> <<0, 0, 13>>],
     [out_share |-> 0, zkp |-> <<30, 16, 13>>]}
ShareChunks == {<<1, 30>>, <<30, 30>>, <<0, 5>>}
ShareLengths == {1, 2, 3}
LastChunk == <<29, 1>>
NotRun == [panic |-> "-"]

ProofSessions ==
    {[op |-> "verify", lambda |-> ShareShape.lambda, r |-> r,
      shares |-> <<a, b, c>>, res |-> [h \in 1..3 |-> NotRun]] :
        a \in ProofShares, b \in ProofShares, c \in LastProofShares,
        r \in Challenges}

UvSessions ==
    UNION {{[op |-> "recurse", lambda |-> ShareShape.lambda, r |-> r,
             shares |-> <<a, b, [k \in 1..n |-> LastChunk]>>,
             res |-> [h \in 1..3 |-> NotRun]] :
               a \in [1..n -> ShareChunks], b \in [1..n -> ShareChunks],
               r \in {3, 22}} :
           n \in ShareLengths}

\* Helper h verifies its share of the proof.
VerifyShare(h) ==
    /\ zk.op = "verify"
    /\ zk.res[h] = NotRun
    /\ zk' = [zk EXCEPT !.res[h] =
                verify_proof(zk.lambda, zk.shares[h].out_share,
                             zk.shares[h].zkp, zk.r)]
    /\ UNCHANGED offZkpVars

\* Helper h compresses its share of the u or v vector.
RecurseShare(h) ==
    /\ zk.op = "recurse"
    /\ zk.res[h] = NotRun
    /\ zk' = [zk EXCEPT !.res[h] = recurse_u_or_v(zk.lambda, zk.shares[h], zk.r)]
    /\ UNCHANGED offZkpVars

\* ------------------------------------------------------------ report codec
\* Bytes, and integers as little-endian bytes.
ByteBase == 256
RECURSIVE to_le_bytes(_, _)
to_le_bytes(v, n) ==
    IF n = 0 THEN <<>> ELSE <<v % ByteBase>> \o to_le_bytes(v \div ByteBase, n - 1)
RECURSIVE from_le_bytes(_)
from_le_bytes(bytes) ==
    IF bytes = <<>> THEN 0 ELSE Head(bytes) + ByteBase * from_le_bytes(Tail(bytes))

\* data[a..b] and data[a..] of a slice, with offsets counted from 0.
Slice(data, a, b) == SubSeq(data, a + 1, b)
SliceFrom(data, a) == SubSeq(data, a + 1, Len(data))

\* <[u8]>::is_ascii
AsciiLimit == 128
is_ascii(bytes) == \A i \in 1..Len(bytes) : bytes[i] < AsciiLimit

RECURSIVE SumBytes(_)
SumBytes(bytes) ==
    IF bytes = <<>> THEN 0 ELSE (Head(bytes) + SumBytes(Tail(bytes))) % ByteBase

\* EventType and its conversions from and to u8.
EventTypes == {"Source", "Trigger"}
EventType_try_from(value) ==
    IF value = 0 THEN [ok |-> TRUE, val |-> "Source"]
    ELSE IF value = 1 THEN [ok |-> TRUE, val |-> "Trigger"]
    ELSE [ok |-> FALSE, val |-> value]
EventType_to_u8(value) == IF value = "Source" THEN 0 ELSE 1

\* Serializable for Gf8Bit, Replicated<Fp32BitPrime> and the match key shares
\* (a pair of Gf40Bit): little-endian, left share first.
Fp32Bytes == 4
Gf40Bytes == 5
serialize_bk(bk) == <<bk>>
deserialize_bk(bytes) == bytes[1]
serialize_pair(share, n) == to_le_bytes(share[1], n) \o to_le_bytes(share[2], n)
deserialize_pair(bytes, n) ==
    <<from_le_bytes(SubSeq(bytes, 1, n)), from_le_bytes(SubSeq(bytes, n + 1, 2 * n))>>

\* MatchKeyCrypt for Gf40Bit: the sizes of the encapsulated key, of the tag
\* and of the ciphertext with its tag.
EncapKeySize == 32
TagSize == 16
PlaintextSize == 2 * Gf40Bytes
CiphertextSize == PlaintextSize + TagSize

\* Info::new: the data bound to a ciphertext, refused for a site domain that
\* is not ASCII.
Info_new(key_id, epoch, event_type, site_domain) ==
    IF is_ascii(site_domain)
    THEN [ok |-> TRUE,
          info |-> [key_id |-> key_id, epoch |-> epoch,
                    event_type |-> event_type, site_domain |-> site_domain]]
    ELSE [ok |-> FALSE, info |-> site_domain]

\* HPKE, as functions of bytes: the key of a message is made of the secret of
\* key_id and of every byte of the encapsulated key; the ciphertext is the
\* plaintext shifted by the key; the tag holds, shifted by the key, the
\* fields of info and a checksum of the ciphertext.
Encapsulate(rng) == [i \in 1..EncapKeySize |-> (rng * i) % ByteBase]
MessageKey(secret, encap_key) == (secret + SumBytes(encap_key)) % ByteBase
Keystream(k, i) == (k * 3 + i) % ByteBase
Apply(k, text, sign) ==
    [i \in 1..Len(text) |-> (text[i] + sign * Keystream(k, i) + ByteBase) % ByteBase]
InfoBytes(info) ==
    <<info.key_id>> \o to_le_bytes(info.epoch, 2)
        \o <<EventType_to_u8(info.event_type), Len(info.site_domain)>>
        \o info.site_domain
Checksum(text) == SumBytes([i \in 1..Len(text) |-> (text[i] * (2 * i + 1)) % ByteBase])
Tag(k, info, ciphertext) ==
    LET fields == InfoBytes(info) \o <<Checksum(ciphertext)>>
    IN  [i \in 1..TagSize |->
            ((IF i <= Len(fields) THEN fields[i] ELSE 0) + k * i) % ByteBase]

\* seal_in_place: (encap_key, ciphertext, tag), or the error of a key_id the
\* registry does not hold.
seal_in_place(key_registry, plaintext, info, rng) ==
    IF info.key_id \notin DOMAIN key_registry
    THEN [ok |-> FALSE, encap_key |-> <<>>, ciphertext |-> <<>>, tag |-> <<>>]
    ELSE LET encap_key == Encapsulate(rng)
             k == MessageKey(key_registry[info.key_id], encap_key)
             ciphertext == Apply(k, plaintext, 1)
         IN  [ok |-> TRUE, encap_key |-> encap_key, ciphertext |-> ciphertext,
              tag |-> Tag(k, info, ciphertext)]

\* open_in_place: the plaintext, or the error of a missing key or of a tag
\* that does not fit.
open_in_place(key_registry, encap_key, ciphertext_and_tag, info) ==
    IF info.key_id \notin DOMAIN key_registry
    THEN [ok |-> FALSE, plaintext |-> <<>>]
    ELSE LET k == MessageKey(key_registry[info.key_id], encap_key)
             ciphertext == SubSeq(ciphertext_and_tag, 1, PlaintextSize)
             tag == SubSeq(ciphertext_and_tag, PlaintextSize + 1, CiphertextSize)
         IN  IF tag = Tag(k, info, ciphertext)
             THEN [ok |-> TRUE, plaintext |-> Apply(k, ciphertext, -1)]
             ELSE [ok |-> FALSE, plaintext |-> <<>>]

\* The offsets of EncryptedReport.
HeaderSize == 13
CIPHERTEXT_OFFSET == HeaderSize + EncapKeySize
EVENT_TYPE_OFFSET == CIPHERTEXT_OFFSET + CiphertextSize
SITE_DOMAIN_OFFSET == EVENT_TYPE_OFFSET + 4

\* The accessors of EncryptedReport.
timestamp(data) == from_le_bytes(Slice(data, 0, 4))
breakdown_key(data) == deserialize_bk(<<data[4 + 1]>>)
trigger_value(data) == deserialize_pair(Slice(data, 5, HeaderSize), Fp32Bytes)
encap_key(data) == Slice(data, HeaderSize, CIPHERTEXT_OFFSET)
match_key_ciphertext(data) == Slice(data, CIPHERTEXT_OFFSET, EVENT_TYPE_OFFSET)
event_type(data) == EventType_try_from(data[EVENT_TYPE_OFFSET + 1]).val
key_id(data) == data[EVENT_TYPE_OFFSET + 1 + 1]
epoch(data) == from_le_bytes(Slice(data, EVENT_TYPE_OFFSET + 2, SITE_DOMAIN_OFFSET))
site_domain(data) == SliceFrom(data, SITE_DOMAIN_OFFSET)

\* The results of the codec: Ok with a value, one of the kinds of
\* InvalidReportError, or a panic.
Outcome(kind, val) == [kind |-> kind, val |-> val]
NoOutcome == Outcome("-", <<>>)
UnwrapPanic == "called unwrap on an Err value"

\* A parser whose slice of the site domain is empty when the buffer ends
\* before SITE_DOMAIN_OFFSET.
from_bytes_short_domain(bytes) ==
    IF Len(bytes) <= EVENT_TYPE_OFFSET
    THEN Outcome("Panic", IndexOutOfBounds)
    ELSE IF ~EventType_try_from(bytes[EVENT_TYPE_OFFSET + 1]).ok
    THEN Outcome("BadEventType", bytes[EVENT_TYPE_OFFSET + 1])
    ELSE IF Len(bytes) < SITE_DOMAIN_OFFSET
    THEN Outcome("Ok", bytes)
    ELSE IF ~is_ascii(SliceFrom(bytes, SITE_DOMAIN_OFFSET))
    THEN Outcome("NonAsciiString", SliceFrom(bytes, SITE_DOMAIN_OFFSET))
    ELSE Outcome("Ok", bytes)

\* A parser that accepts every buffer long enough to hold the fixed fields.
from_bytes_unvalidated(bytes) ==
    IF Len(bytes) < SITE_DOMAIN_OFFSET
    THEN Outcome("Panic", IndexOutOfBounds)
    ELSE Outcome("Ok", bytes)

\* A parser that looks at the site domain before the event type.
from_bytes_domain_first(bytes) ==
    IF Len(bytes) < SITE_DOMAIN_OFFSET
    THEN Outcome("Panic", IndexOutOfBounds)
    ELSE IF ~is_ascii(SliceFrom(bytes, SITE_DOMAIN_OFFSET))
    THEN Outcome("NonAsciiString", SliceFrom(bytes, SITE_DOMAIN_OFFSET))
    ELSE IF ~EventType_try_from(bytes[EVENT_TYPE_OFFSET + 1]).ok
    THEN Outcome("BadEventType", bytes[EVENT_TYPE_OFFSET + 1])
    ELSE Outcome("Ok", bytes)

\* EncryptedReport::from_bytes
from_bytes(bytes) ==
    IF Len(bytes) <= EVENT_TYPE_OFFSET
    THEN Outcome("Panic", IndexOutOfBounds)
    ELSE IF ~EventType_try_from(bytes[EVENT_TYPE_OFFSET + 1]).ok
    THEN Outcome("BadEventType", bytes[EVENT_TYPE_OFFSET + 1])
    ELSE IF Len(bytes) < SITE_DOMAIN_OFFSET
    THEN Outcome("Panic", IndexOutOfBounds)
    ELSE IF ~is_ascii(SliceFrom(bytes, SITE_DOMAIN_OFFSET))
    THEN Outcome("NonAsciiString", SliceFrom(bytes, SITE_DOMAIN_OFFSET))
    ELSE Outcome("Ok", bytes)

\* A decryption that returns a Report whether or not the ciphertext opens.
decrypt_unauthenticated(data, key_registry) ==
    LET info == Info_new(key_id(data), epoch(data), event_type(data),
                         site_domain(data)).info
        opened == open_in_place(key_registry, encap_key(data),
                                match_key_ciphertext(data), info)
    IN  Outcome("Ok",
            [timestamp |-> timestamp(data),
             mk_shares |-> IF opened.ok
                           THEN deserialize_pair(opened.plaintext, Gf40Bytes)
                           ELSE <<0, 0>>,
             event_type |-> event_type(data),
             breakdown_key |-> breakdown_key(data),
             trigger_value |-> trigger_value(data),
             epoch |-> epoch(data),
             site_domain |-> site_domain(data)])

\* A decryption that reads the timestamp from its three low bytes.
decrypt_short_timestamp(data, key_registry) ==
    LET info == Info_new(key_id(data), epoch(data), event_type(data),
                         site_domain(data)).info
        opened == open_in_place(key_registry, encap_key(data),
                                match_key_ciphertext(data), info)
    IN  IF ~opened.ok THEN Outcome("Crypt", <<>>)
        ELSE Outcome("Ok",
                [timestamp |-> from_le_bytes(Slice(data, 0, 3)),
                 mk_shares |-> deserialize_pair(opened.plaintext, Gf40Bytes),
                 event_type |-> event_type(data),
                 breakdown_key |-> breakdown_key(data),
                 trigger_value |-> trigger_value(data),
                 epoch |-> epoch(data),
                 site_domain |-> site_domain(data)])

\* The unwraps of event_type(), of site_domain() and of Info::new in decrypt:
\* TRUE when one of them meets an Err.
UnwrapFails(data) ==
    \/ ~EventType_try_from(data[EVENT_TYPE_OFFSET + 1]).ok
    \/ ~is_ascii(site_domain(data))
    \/ ~Info_new(key_id(data), epoch(data), event_type(data),
                 site_domain(data)).ok

\* EncryptedReport::decrypt, of the data of an EncryptedReport: it unwraps
\* what the constructor has validated and returns an error only when the
\* ciphertext does not open.
decrypt(data, key_registry) ==
    LET info == Info_new(key_id(data), epoch(data), event_type(data),
                         site_domain(data)).info
        opened == open_in_place(key_registry, encap_key(data),
                                match_key_ciphertext(data), info)
    IN  IF UnwrapFails(data) THEN Outcome("Panic", UnwrapPanic)
        ELSE IF ~opened.ok THEN Outcome("Crypt", <<>>)
        ELSE Outcome("Ok",
                [timestamp |-> timestamp(data),
                 mk_shares |-> deserialize_pair(opened.plaintext, Gf40Bytes),
                 event_type |-> event_type(data),
                 breakdown_key |-> breakdown_key(data),
                 trigger_value |-> trigger_value(data),
                 epoch |-> epoch(data),
                 site_domain |-> site_domain(data)])

\* An encryption that writes the discriminant of the event type.
encrypt_discriminant(report, kid, key_registry, rng) ==
    LET info == Info_new(kid, report.epoch, report.event_type, report.site_domain)
        sealed == seal_in_place(key_registry,
                      serialize_pair(report.mk_shares, Gf40Bytes), info.info, rng)
    IN  IF ~info.ok THEN Outcome("NonAsciiString", report.site_domain)
        ELSE IF ~sealed.ok THEN Outcome("Crypt", <<>>)
        ELSE Outcome("Ok",
                to_le_bytes(report.timestamp, 4)
                \o serialize_bk(report.breakdown_key)
                \o serialize_pair(report.trigger_value, Fp32Bytes)
                \o sealed.encap_key \o sealed.ciphertext \o sealed.tag
                \o <<1 - EventType_to_u8(report.event_type)>>
                \o <<kid>>
                \o to_le_bytes(report.epoch, 2)
                \o report.site_domain)

\* An encryption that writes the key identifier before the event type.
encrypt_key_id_first(report, kid, key_registry, rng) ==
    LET info == Info_new(kid, report.epoch, report.event_type, report.site_domain)
        sealed == seal_in_place(key_registry,
                      serialize_pair(report.mk_shares, Gf40Bytes), info.info, rng)
    IN  IF ~info.ok THEN Outcome("NonAsciiString", report.site_domain)
        ELSE IF ~sealed.ok THEN Outcome("Crypt", <<>>)
        ELSE Outcome("Ok",
                to_le_bytes(report.timestamp, 4)
                \o serialize_bk(report.breakdown_key)
                \o serialize_pair(report.trigger_value, Fp32Bytes)
                \o sealed.encap_key \o sealed.ciphertext \o sealed.tag
                \o <<kid>>
                \o <<EventType_to_u8(report.event_type)>>
                \o to_le_bytes(report.epoch, 2)
                \o report.site_domain)

\* Report::encrypt (encrypt_to into an empty Vec)
encrypt(report, kid, key_registry, rng) ==
    LET info == Info_new(kid, report.epoch, report.event_type, report.site_domain)
        sealed == seal_in_place(key_registry,
                      serialize_pair(report.mk_shares, Gf40Bytes), info.info, rng)
    IN  IF ~info.ok THEN Outcome("NonAsciiString", report.site_domain)
        ELSE IF ~sealed.ok THEN Outcome("Crypt", <<>>)
        ELSE Outcome("Ok",
                to_le_bytes(report.timestamp, 4)
                \o serialize_bk(report.breakdown_key)
                \o serialize_pair(report.trigger_value, Fp32Bytes)
                \o sealed.encap_key \o sealed.ciphertext \o sealed.tag
                \o <<EventType_to_u8(report.event_type)>>
                \o <<kid>>
                \o to_le_bytes(report.epoch, 2)
                \o report.site_domain)

\* ------------------------------------------------------ the codec's session
\* The reports of the session: fields of zero and fields that fill several
\* bytes (all below 2^31), with site domains of ASCII letters and one that is
\* not ASCII.
Timestamps == {0, 16909060}
MatchKeys == {<<0, 0>>, <<2147483647, 16909060>>}
BreakdownKeys == {0, 200}
TriggerValues == {<<0, 0>>, <<258, 2147483647>>}
Epochs == {0, 513}
AsciiLetters == {97, 122}
NonAsciiDomain == <<195, 169>>
SiteDomains == SeqsUpTo(AsciiLetters, MaxDomain) \cup {NonAsciiDomain}
Reports ==
    [timestamp : Timestamps, mk_shares : MatchKeys, event_type : EventTypes,
     breakdown_key : BreakdownKeys, trigger_value : TriggerValues,
     epoch : Epochs, site_domain : SiteDomains]

\* KeyRegistry::random(n): the secrets of the key identifiers 0..n-1.
KeyIds == 0..1
Registry(n) == [id \in 0..(n - 1) |-> 40 + 7 * id]
Registries == {Registry(n) : n \in 1..2}
Rngs == 1..MaxRng

\* The encrypted reports of the tests decrypt, invalid_event_type and
\* invalid_site_domain.
DecryptVector ==
    <<51, 1, 232, 215, 82, 142, 8, 103, 20, 24, 210, 22, 77, 200, 10, 52, 3,
      228, 170, 221, 1, 190, 66, 99, 183, 35, 186, 34, 4, 99, 140, 32, 131,
      5, 0, 113, 11, 43, 219, 147, 31, 95, 66, 159, 35, 74, 189, 223, 9, 16,
      158, 203, 47, 115, 11, 54, 139, 127, 164, 253, 160, 172, 243, 219, 82,
      197, 213, 9, 104, 30, 138, 1, 0, 120, 59, 108, 100, 70, 110, 85, 49,
      56, 109, 108, 68>>
InvalidEventTypeVector ==
    <<51, 1, 232, 215, 82, 142, 8, 103, 20, 24, 210, 22, 77, 200, 10, 52, 3,
      228, 170, 221, 1, 190, 66, 99, 183, 35, 186, 34, 4, 99, 140, 32, 131,
      5, 0, 113, 11, 43, 219, 147, 31, 95, 66, 159, 35, 74, 189, 223, 9, 16,
      158, 203, 47, 115, 11, 54, 139, 127, 164, 253, 160, 172, 243, 219, 82,
      197, 213, 9, 104, 30, 138, 189, 0, 120, 59, 108, 100, 70, 110, 85, 49,
      56, 109, 108, 68>>
InvalidSiteDomainVector ==
    <<51, 1, 232, 215, 82, 142, 8, 103, 20, 24, 210, 22, 77, 200, 10, 52, 3,
      228, 170, 221, 1, 190, 66, 99, 183, 35, 186, 34, 4, 99, 140, 32, 131,
      5, 0, 113, 11, 43, 219, 147, 31, 95, 66, 159, 35, 74, 189, 223, 9, 16,
      158, 203, 47, 115, 11, 54, 139, 127, 164, 253, 160, 172, 243, 219, 82,
      197, 213, 9, 104, 30, 138, 1, 0, 120, 59, 255, 100, 70, 110, 85, 49,
      56, 109, 108, 68>>

\* The buffers handed to from_bytes: those of the tests and an encrypted
\* report of the model, with every event-type byte and site domain of
\* interest, whole and cut short.
SampleReport ==
    [timestamp |-> 16909060, mk_shares |-> <<2147483647, 16909060>>,
     event_type |-> "Trigger", breakdown_key |-> 200,
     trigger_value |-> <<258, 2147483647>>, epoch |-> 513,
     site_domain |-> <<97, 122>>]
BufferBases == {DecryptVector, encrypt(SampleReport, 0, Registry(1), 1).val}
EventBytes == {0, 1, 2, 189, 255}
DomainBytes == {97, 127, 128, 255}
BufferDomains ==
    SeqsUpTo(DomainBytes, MaxDomain)
        \cup {site_domain(DecryptVector), site_domain(InvalidSiteDomainVector)}
BufferLengths(whole) ==
    {0, EVENT_TYPE_OFFSET, EVENT_TYPE_OFFSET + 1, SITE_DOMAIN_OFFSET - 1,
     SITE_DOMAIN_OFFSET, whole}
Rebuilt(base, e, domain) ==
    Slice(base, 0, EVENT_TYPE_OFFSET) \o <<e>>
        \o Slice(base, EVENT_TYPE_OFFSET + 1, SITE_DOMAIN_OFFSET) \o domain
Buffers ==
    UNION {{SubSeq(Rebuilt(base, e, domain), 1, n) :
                n \in BufferLengths(SITE_DOMAIN_OFFSET + Len(domain))} :
           <<base, e, domain>> \in BufferBases \X EventBytes \X BufferDomains}

NoInput ==
    [timestamp |-> 0, mk_shares |-> <<0, 0>>, event_type |-> "Source",
     breakdown_key |-> 0, trigger_value |-> <<0, 0>>, epoch |-> 0,
     site_domain |-> <<>>]
Session(report, kid, registry, rng, buf) ==
    [report |-> report, key_id |-> kid, registry |-> registry, rng |-> rng,
     sent |-> NoOutcome, buf |-> buf, parsed |-> NoOutcome,
     decrypted |-> NoOutcome]
NoReport == rp = Session(NoInput, 0, Registry(1), 0, NoOutcome)

\* report.encrypt(key_id, &key_registry, &mut rng)
EncryptReport ==
    /\ rp.buf.kind = "-"
    /\ LET out == encrypt(rp.report, rp.key_id, rp.registry, rp.rng)
       IN  rp' = [rp EXCEPT !.sent = out, !.buf = out]
    /\ UNCHANGED offReportVars

\* EncryptedReport::from_bytes(bytes)
ParseReport ==
    /\ rp.buf.kind = "Ok"
    /\ rp.parsed.kind = "-"
    /\ rp' = [rp EXCEPT !.parsed = from_bytes(rp.buf.val)]
    /\ UNCHANGED offReportVars

\* enc_report.decrypt(&key_registry)
DecryptReport ==
    /\ rp.parsed.kind = "Ok"
    /\ rp.decrypted.kind = "-"
    /\ rp' = [rp EXCEPT !.decrypted = decrypt(rp.parsed.val, rp.registry)]
    /\ UNCHANGED offReportVars

\* The bytes of an encrypted report are changed on their way to the helper:
\* the byte at offset p is moved by d (the 32-bit fields stay below 2^31).
TamperDeltas == {1, 128}
TopBytes == {3, 8, 12}
TamperByte(p, d) ==
    /\ rp.sent.kind = "Ok"
    /\ rp.buf = rp.sent
    /\ rp.parsed.kind = "-"
    /\ p < Len(rp.buf.val)
    /\ p \in TopBytes => (rp.buf.val[p + 1] + d) % ByteBase < ByteBase \div 2
    /\ rp' = [rp EXCEPT !.buf.val[p + 1] = (@ + d) % ByteBase]
    /\ UNCHANGED offReportVars

\* The bytes of an encrypted report lose their last byte, or gain one.
TamperLength ==
    /\ rp.sent.kind = "Ok"
    /\ rp.buf = rp.sent
    /\ rp.parsed.kind = "-"
    /\ \/ rp' = [rp EXCEPT !.buf.val = SubSeq(@, 1, Len(@) - 1)]
       \/ rp' = [rp EXCEPT !.buf.val = Append(@, 97)]
    /\ UNCHANGED offReportVars

\* The helper that decrypts holds another registry than the one the report
\* was encrypted with.
OtherRegistry ==
    /\ rp.sent.kind = "Ok"
    /\ rp.parsed.kind = "-"
    /\ rp.registry = Registry(2)
    /\ rp' = [rp EXCEPT !.registry = Registry(1)]
    /\ UNCHANGED offReportVars

\* ------------------------------------------------------------ solved_bits
\* The number of bits of the prime: the length of the vector of random bits.
RECURSIVE BitLength(_)
BitLength(n) == IF n = 0 THEN 0 ELSE 1 + BitLength(n \div 2)
PrimeBits == BitLength(PRIME)

\* The three additive shares of v under the masks m1 and m2, and the
\* replicated share helper h holds of them.
Sharing(v, m1, m2) == <<m1 % PRIME, m2 % PRIME, ToField(v - m1 - m2)>>
HelperShare(x, h) == Replicated(x[h], x[Right(h)])
share_add(a, b) ==
    Replicated(field_add(a.left, b.left), field_add(a.right, b.right))
share_mul(a, c) == Replicated(field_mul(a.left, c), field_mul(a.right, c))
reconstruct(s) == field_add(field_add(s[1].left, s[2].left), s[3].left)

\* bits_to_value: the integer a vector of bits stands for, lowest bit first.
RECURSIVE bits_to_value(_)
bits_to_value(x) ==
    IF x = <<>> THEN 0 ELSE Head(x) + 2 * bits_to_value(Tail(x))

\* generate_random_bits: the sharing of every random bit of the run.
BitSharing(run, i) ==
    Sharing(run.bits[i], run.mask[1] + i, run.mask[2] * i)
generate_random_bits(run, h) ==
    [i \in 1..Len(run.bits) |-> HelperShare(BitSharing(run, i), h)]

\* BitwiseLessThanPrime::less_than_prime: a sharing of 1 when the number of
\* the bits is less than the prime and of 0 when it is not.
less_than_prime(run, h) ==
    LET c == IF bits_to_value(run.bits) < PRIME THEN 1 ELSE 0
    IN  HelperShare(Sharing(c, run.mask[2], run.mask[1]), h)

\* reveal: helper h adds the share its left peer sends to its own two.
reveal(own, from_left) ==
    field_add(field_add(own.left, own.right), from_left.left)

\* A comparison that helper h decides on its own share.
is_less_than_p_unrevealed(run, h) ==
    LET c_b == less_than_prime(run, h)
    IN  IF field_add(c_b.left, c_b.right) = 0 THEN FALSE ELSE TRUE

\* is_less_than_p: false when c_b reveals to zero.
is_less_than_p(run, h) ==
    LET c_b == less_than_prime(run, h)
    IN  IF reveal(c_b, less_than_prime(run, Left(h))) = 0 THEN FALSE ELSE TRUE

\* Step 6: [b_p] = sum of 2^i * [b_i], i from 0.
RECURSIVE SumBits(_, _)
SumBits(b_b, i) ==
    IF i > Len(b_b) THEN Replicated(0, 0)
    ELSE share_add(share_mul(b_b[i], ToField(2 ^ (i - 1))), SumBits(b_b, i + 1))

\* The value solved_bits returns: None, or Some(RandomBitsShare).
None == [some |-> FALSE, b_b |-> <<>>, b_p |-> Replicated(0, 0)]
Some(b_b, b_p) == [some |-> TRUE, b_b |-> b_b, b_p |-> b_p]

\* A solved_bits whose b_p weighs bit i by i + 1.
solved_bits_linear(b_b, less) ==
    IF ~less THEN None
    ELSE Some(b_b,
              LET RECURSIVE Sum(_)
                  Sum(i) == IF i > Len(b_b) THEN Replicated(0, 0)
                            ELSE share_add(share_mul(b_b[i], ToField(i)), Sum(i + 1))
              IN  Sum(1))

\* solved_bits, after generate_random_bits and is_less_than_p have returned.
solved_bits(b_b, less) ==
    IF ~less THEN None ELSE Some(b_b, SumBits(b_b, 1))

\* A run: the random bits, the masks of their sharing, and per helper its
\* position in solved_bits, its b_b, its comparison and its result.
Run(bits, mask) ==
    [bits |-> bits, mask |-> mask,
     pc |-> [h \in Helpers |-> "start"],
     b_b |-> [h \in Helpers |-> <<>>],
     less |-> [h \in Helpers |-> FALSE],
     res |-> [h \in Helpers |-> None]]
NoSolvedBits == sb = Run(<<>>, <<0, 0>>)

\* let b_b = ctx.narrow(&Step::RandomBits).generate_random_bits(record_id)
GenerateRandomBits(h) ==
    /\ sb.pc[h] = "start"
    /\ sb' = [sb EXCEPT !.pc[h] = "bits", !.b_b[h] = generate_random_bits(sb, h)]
    /\ UNCHANGED offSolvedVars

\* is_less_than_p(ctx.clone(), record_id, &b_b): the comparison and the
\* reveal take part of every helper.
IsLessThanP(h) ==
    /\ sb.pc[h] = "bits"
    /\ \A g \in Helpers : sb.pc[g] # "start"
    /\ sb' = [sb EXCEPT !.pc[h] = "compared", !.less[h] = is_less_than_p(sb, h)]
    /\ UNCHANGED offSolvedVars

\* return Ok(None), or step 6 and return Ok(Some(..))
SolvedBits(h) ==
    /\ sb.pc[h] = "compared"
    /\ sb' = [sb EXCEPT !.pc[h] = "done",
                        !.res[h] = solved_bits(sb.b_b[h], sb.less[h])]
    /\ UNCHANGED offSolvedVars

NoSecret == 0
NoEndpoint == [st |-> "none", left |-> [cipher |-> 0], right |-> [cipher |-> 0]]
PanickedEndpoint ==
    [st |-> "panicked", left |-> [cipher |-> 0], right |-> [cipher |-> 0]]
NoOutput ==
    [index |-> -1, values |-> <<0, 0>>, fields |-> <<0, 0>>,
     replicated |-> Replicated(0, 0), zero |-> 0]

\* No generation was made yet.
NoCall == [out |-> NoOutput, others |-> FALSE]

\* No PRSS endpoint exists: the state the transport runs in.
NoPrss ==
    /\ debug_assertions = TRUE
    /\ sk = [h \in Helpers |-> [d \in Sides |-> NoSecret]]
    /\ endpoint = [h \in Helpers |-> NoEndpoint]
    /\ generated = [h \in Helpers |-> NoOutput]
    /\ firstCall = [h \in Helpers |-> NoCall]

\* Every helper has created its two KeyExchange objects, in either build.
InitPrss ==
    /\ InitTransport
    /\ NoZkp
    /\ NoReport
    /\ NoSolvedBits
    /\ debug_assertions \in BOOLEAN
    /\ sk \in [Helpers -> [Sides -> SecretKeys]]
    /\ endpoint = [h \in Helpers |-> NoEndpoint]
    /\ generated = [h \in Helpers |-> NoOutput]
    /\ firstCall = [h \in Helpers |-> NoCall]

\* Helper h receives the public keys of its peers' facing KeyExchange objects
\* and exchanges keys on both sides; the generators are made for the context
\* of the step.
Setup(h, context) ==
    /\ endpoint[h].st = "none"
    /\ LET fl == key_exchange(sk[h]["left"], public_key(sk[Left(h)]["right"]))
           fr == key_exchange(sk[h]["right"], public_key(sk[Right(h)]["left"]))
       IN  endpoint' = [endpoint EXCEPT ![h] =
               IF fl.panic # NoPanic \/ fr.panic # NoPanic
               THEN PanickedEndpoint
               ELSE [st |-> "ready", left |-> generator(fl, context),
                     right |-> generator(fr, context)]]
    /\ UNCHANGED <<offPrssVars, debug_assertions, sk, generated, firstCall>>

\* Helper h generates at one index: raw values, field values, a replicated
\* share and a share of zero.
Generate(h, index) ==
    /\ endpoint[h].st = "ready"
    /\ generated' = [generated EXCEPT ![h] =
           [index |-> index,
            values |-> generate_values(endpoint[h], index),
            fields |-> from_prss(endpoint[h], index),
            replicated |-> from_prss_replicated(endpoint[h], index),
            zero |-> zero(endpoint[h], index)]]
    /\ UNCHANGED <<offPrssVars, debug_assertions, sk, endpoint>>

\* One helper alone: no peer has set up its endpoint.
SetupAlone(h, context) ==
    /\ \A g \in Helpers \ {h} : endpoint[g].st = "none"
    /\ Setup(h, context)

\* A generation whose place among the helper's generations is recorded: the
\* first one is kept, and so is whether another index was generated since.
GenerateRecorded(h, index) ==
    /\ Generate(h, index)
    /\ firstCall' = [firstCall EXCEPT ![h] =
           IF firstCall[h] = NoCall
           THEN [out |-> generated'[h], others |-> FALSE]
           ELSE [firstCall[h] EXCEPT
                    !.others = @ \/ index # firstCall[h].out.index]]

\* A verifier about to start one of the sessions.
InitZkp ==
    /\ InitTransport
    /\ NoPrss
    /\ NoReport
    /\ NoSolvedBits
    /\ zk \in VerifySessions \cup RecurseSessions \cup {SampleProofU, SampleProofV}

\* The three helpers about to verify their shares of one proof, or to
\* compress their shares of one vector.
InitShares ==
    /\ InitTransport
    /\ NoPrss
    /\ NoReport
    /\ NoSolvedBits
    /\ zk \in ProofSessions \cup UvSessions

\* A report, a key identifier, a registry and the state of the rng, before
\* the report is encrypted.
InitReport ==
    /\ InitTransport
    /\ NoPrss
    /\ NoZkp
    /\ NoSolvedBits
    /\ rp \in {Session(report, kid, registry, rng, NoOutcome) :
                 <<report, kid, registry, rng>> \in
                     Reports \X KeyIds \X Registries \X Rngs}

\* A buffer received from a client, before it is parsed.
InitParse ==
    /\ InitTransport
    /\ NoPrss
    /\ NoZkp
    /\ NoSolvedBits
    /\ rp \in {Session(NoInput, 0, Registry(1), 0, Outcome("Ok", bytes)) :
                 bytes \in Buffers}

\* A source or a trigger report, before it is encrypted and sent over a
\* network that may change its bytes.
TamperReports == {SampleReport, [SampleReport EXCEPT !.event_type = "Source"]}
TamperOffsets == 0..(SITE_DOMAIN_OFFSET + Len(SampleReport.site_domain) - 1)
InitTamper ==
    /\ InitTransport
    /\ NoPrss
    /\ NoZkp
    /\ NoSolvedBits
    /\ rp \in {Session(report, kid, registry, 1, NoOutcome) :
                 <<report, kid, registry>> \in
                     TamperReports \X KeyIds \X Registries}

\* The three helpers about to run solved_bits on one record: the random bits
\* that will be generated and the masks of their sharing.
InitSolved ==
    /\ InitTransport
    /\ NoPrss
    /\ NoZkp
    /\ NoReport
    /\ sb \in {Run(bits, mask) :
                 <<bits, mask>> \in [1..PrimeBits -> {0, 1}]
                                      \X ((0..MaxMask) \X (0..MaxMask))}

\* A collection with no entry, shared by threads that call it.
InitCells ==
    /\ InitNetwork
    /\ InitCollection(CellKeys)
    /\ NoPrss
    /\ NoZkp
    /\ NoReport
    /\ NoSolvedBits

\* The transport before a burst of send() calls.
InitInbox ==
    /\ InitNetworkOf(BurstIds)
    /\ InitCollection(StreamKeys)
    /\ NoPrss
    /\ NoZkp
    /\ NoReport
    /\ NoSolvedBits

Init == InitTransport /\ NoPrss /\ NoZkp /\ NoReport /\ NoSolvedBits

\* -------------------------------------------------------------------- Spec
\* The transport of one helper: send() calls of every route, the inbound loop
\* and one consumer of its StreamCollection; the producers have not yet
\* yielded anything.
Next ==
    \/ \E s \in SendIds : SendStart(s) /\ UNCHANGED offTransportVars
    \/ \E s \in SendIds : SendReturn(s) /\ UNCHANGED offTransportVars
    \/ \E s \in SendIds : SendCancel(s) /\ UNCHANGED offTransportVars
    \/ LoopRecv /\ UNCHANGED offTransportVars
    \/ LoopCallbackDone /\ UNCHANGED offTransportVars
    \/ \E c \in ConsIds : ReceiveFirst(c) /\ UNCHANGED offTransportVars
    \/ \E c \in ConsIds, w \in Tasks : Poll(c, w) /\ UNCHANGED offTransportVars

Spec == Init /\ [][Next]_vars

\* The inbound loop with the senders that fill its inbox and one consumer:
\* the senders neither return nor are cancelled.
NextLoop ==
    \/ \E s \in SendIds : SendStart(s) /\ UNCHANGED offTransportVars
    \/ LoopRecv /\ UNCHANGED offTransportVars
    \/ LoopCallbackDone /\ UNCHANGED offTransportVars
    \/ \E c \in ConsIds : ReceiveFirst(c) /\ UNCHANGED offTransportVars
    \/ \E c \in ConsIds, w \in Tasks : Poll(c, w) /\ UNCHANGED offTransportVars

SpecLoop == Init /\ [][NextLoop]_vars

\* A burst of send() calls from both peers, more than the inbox holds, one
\* after the other: the first MaxSends packets are Records of any key of one
\* query and the others are Records of one key.
BurstSend(s) ==
    /\ \A r \in BurstIds : r < s => msg[r].pc # "idle"
    /\ SendStartOf(s, {in \in RecordsInputs :
            /\ in.qid = "q1"
            /\ s > MaxSends => in.origin = "TWO"})

NextInbox ==
    \/ \E s \in BurstIds : BurstSend(s) /\ UNCHANGED offTransportVars
    \/ LoopRecv /\ UNCHANGED offTransportVars

SpecInbox == InitInbox /\ [][NextInbox]_vars

\* The inbound loop and senders that may stop waiting for their ack.
NextCancel ==
    \/ \E s \in SendIds : SendStart(s) /\ UNCHANGED offTransportVars
    \/ \E s \in SendIds : SendReturn(s) /\ UNCHANGED offTransportVars
    \/ \E s \in SendIds : SendCancel(s) /\ UNCHANGED offTransportVars
    \/ LoopRecv /\ UNCHANGED offTransportVars
    \/ LoopCallbackDone /\ UNCHANGED offTransportVars

SpecCancel == Init /\ [][NextCancel]_vars

\* The inbound loop and its senders under the scheduling of the runtime:
\* the loop task runs while it has a packet to take, an awaited callback
\* returns, and a sender whose ack channel was resolved is resumed.
FairAwait ==
    /\ Init /\ [][NextCancel]_vars
    /\ WF_vars(LoopRecv /\ UNCHANGED offTransportVars)
    /\ WF_vars(LoopCallbackDone /\ UNCHANGED offTransportVars)
    /\ \A s \in SendIds : WF_vars(SendReturn(s) /\ UNCHANGED offTransportVars)

\* The StreamCollection with its producers and consumers: Records packets of
\* one query only, whose senders neither return nor are cancelled and whose
\* producers have not yet yielded anything.
CollSend(s) ==
    SendStartOf(s, {in \in SendInputs : in.route = "Records" /\ in.qid = "q1"})

NextColl ==
    \/ \E s \in SendIds : CollSend(s) /\ UNCHANGED offTransportVars
    \/ LoopRecv /\ UNCHANGED offTransportVars
    \/ \E c \in ConsIds : Receive(c) /\ UNCHANGED offTransportVars
    \/ \E c \in ConsIds, w \in Tasks : Poll(c, w) /\ UNCHANGED offTransportVars

SpecColl == Init /\ [][NextColl]_vars

\* A task whose waker was woken is scheduled and polls its consumer again.
NotifiedPoll(c) ==
    /\ notified[c]
    /\ Poll(c, consumers[c].owner)
    /\ UNCHANGED offTransportVars


\* One records stream from its producer to the consumers of its helper: a
\* single send(), whose producer pushes chunks and ends the stream while
\* consumers are created, polled and dropped.
DataSend(s) ==
    /\ \A r \in SendIds : msg[r].pc = "idle"
    /\ CollSend(s)

NextData ==
    \/ \E s \in SendIds : DataSend(s) /\ UNCHANGED offTransportVars
    \/ LoopRecv /\ UNCHANGED offTransportVars
    \/ \E c \in ConsIds : Receive(c) /\ UNCHANGED offTransportVars
    \/ \E c \in ConsIds, w \in Tasks : Poll(c, w) /\ UNCHANGED offTransportVars
    \/ \E c \in ConsIds : Drop(c) /\ UNCHANGED offTransportVars
    \/ \E s \in SendIds : Push(s) /\ UNCHANGED offTransportVars
    \/ \E s \in SendIds : Close(s) /\ UNCHANGED offTransportVars

SpecData == Init /\ [][NextData]_vars

\* One records stream and the consumers that poll for it, none of which is
\* dropped: the producer pushes chunks while the consumers are polled from
\* any task.
NextTake ==
    \/ \E s \in SendIds : DataSend(s) /\ UNCHANGED offTransportVars
    \/ LoopRecv /\ UNCHANGED offTransportVars
    \/ \E c \in ConsIds : Receive(c) /\ UNCHANGED offTransportVars
    \/ \E c \in ConsIds, w \in Tasks : Poll(c, w) /\ UNCHANGED offTransportVars
    \/ \E s \in SendIds : Push(s) /\ UNCHANGED offTransportVars

SpecTake == Init /\ [][NextTake]_vars

\* One records stream and consumers that may be dropped before or after it
\* arrives; the producer has not yet yielded anything.
NextDrop ==
    \/ \E s \in SendIds : DataSend(s) /\ UNCHANGED offTransportVars
    \/ LoopRecv /\ UNCHANGED offTransportVars
    \/ \E c \in ConsIds : Receive(c) /\ UNCHANGED offTransportVars
    \/ \E c \in ConsIds, w \in Tasks : Poll(c, w) /\ UNCHANGED offTransportVars
    \/ \E c \in ConsIds : Drop(c) /\ UNCHANGED offTransportVars

SpecDrop == Init /\ [][NextDrop]_vars

\* The rendezvous of one records stream with the consumers of its helper,
\* in either arrival order, under the scheduling of the runtime: a task whose
\* waker was woken is polled again.
NextWake ==
    \/ \E s \in SendIds : DataSend(s) /\ UNCHANGED offTransportVars
    \/ LoopRecv /\ UNCHANGED offTransportVars
    \/ \E c \in ConsIds : Receive(c) /\ UNCHANGED offTransportVars
    \/ \E c \in ConsIds, w \in Tasks : Poll(c, w) /\ UNCHANGED offTransportVars

FairWake ==
    /\ Init /\ [][NextWake]_vars
    /\ \A c \in ConsIds : WF_vars(NotifiedPoll(c))

\* The StreamCollection on its own: add_stream and add_waker called in any
\* order, for any key, stream and waker.
NextCells ==
    \/ \E key \in CellKeys, s \in SendIds : AddStream(key, s) /\ UNCHANGED offTransportVars
    \/ \E key \in CellKeys, w \in Tasks : AddWaker(key, w) /\ UNCHANGED offTransportVars
SpecCells == InitCells /\ [][NextCells]_vars

\* The three helpers' PRSS endpoints: key exchange on both sides of every
\* helper, then generation at any index, in any order.
NextPrss ==
    \/ \E h \in Helpers, context \in Contexts : Setup(h, context)
    \/ \E h \in Helpers, index \in PrssIndexes :
          Generate(h, index) /\ UNCHANGED firstCall

SpecPrss == InitPrss /\ [][NextPrss]_vars

\* The generations of one helper, one after the other, at any indexes in
\* any order.
NextCalls ==
    \/ \E h \in Helpers, context \in Contexts : SetupAlone(h, context)
    \/ \E h \in Helpers, index \in PrssIndexes : GenerateRecorded(h, index)

SpecCalls == InitPrss /\ [][NextCalls]_vars

\* A session of a proof verifier, step by step.
NextZkp ==
    \/ VerifyProof
    \/ RecurseUOrV
    \/ FinalTrim

SpecZkp == InitZkp /\ [][NextZkp]_vars

\* The three helpers run the verifier on their shares, in any order.
NextShares ==
    \/ \E h \in Helpers : VerifyShare(h)
    \/ \E h \in Helpers : RecurseShare(h)

SpecShares == InitShares /\ [][NextShares]_vars

\* ================================================================ claims

\* C1: once a consumer has taken the stream of a key, the cell is the
\* Completed tombstone, and every poll of a still-Pending ReceiveRecords on
\* that key panics with "stream has been consumed already", whether or not
\* the producer has closed the stream; the panic leaves the mutex unpoisoned,
\* the cell Completed and the consumer Pending, so the next attempt panics
\* in the same way.
C1_DoubleConsumePanics ==
    /\ ~poisoned
    /\ \A k \in StreamKeys : handed[k] # {} => streams[k] = Completed
    /\ (last.op = "poll" /\ last.pre.st = "Completed") =>
            /\ last.out = "Panic"
            /\ last.panic = "stream has been consumed already"
            /\ streams[last.key] = Completed
            /\ consumers[last.id].st = "Pending"

\* A second receive on a consumed key has just panicked, after the producer
\* closed the stream.
C1_Witness ==
    /\ last.op = "poll"
    /\ last.panic = "stream has been consumed already"
    /\ \E s \in handed[last.key] : closed[s]
    /\ \E c \in ConsIds : consumers[c].st = "Ready" /\ consumers[c].key = last.key

\* C2: add_stream on a cell that is Ready or Completed panics and leaves the
\* cell as it was, and on a vacant or Waiting cell it does not panic; so at
\* most one stream is ever stored under a key, and the streams handed to
\* consumers of a key are among those stored (never a second one).
C2_OneStreamPerKey ==
    /\ \A k \in StreamKeys :
            /\ Cardinality(stored[k]) <= 1
            /\ handed[k] \subseteq stored[k]
            /\ streams[k].st = "Ready" => streams[k].stream \in stored[k]
    /\ \A c \in ConsIds :
            consumers[c].st = "Ready" => consumers[c].stream \in stored[consumers[c].key]
    /\ last.op = "add_stream" =>
            /\ last.pre.st \in {"Ready", "Completed"} =>
                    /\ last.panic = "entry state expected to be waiting"
                    /\ streams[last.key] = last.pre
                    /\ last.id \notin stored[last.key]
            /\ last.pre.st \in {"Vacant", "Waiting"} =>
                    /\ last.panic = NoPanic
                    /\ streams[last.key] = Ready(last.id)

\* A second add_stream for a key whose stream was already consumed has just
\* panicked.
C2_Witness ==
    /\ last.op = "add_stream"
    /\ last.pre.st = "Completed"
    /\ last.panic # NoPanic
    /\ loop.pc = "panicked"
    /\ \E c \in ConsIds : consumers[c].st = "Ready" /\ consumers[c].key = last.key

\* C3: the consumer of key (query_id, A, step) holds the Records stream that
\* A sent under (query_id, step), and what it has yielded is exactly the
\* chunks the producer has yielded so far that were read, in order, none lost
\* and none twice; a poll answers Pending only when every chunk pushed has
\* been yielded and the producer has not ended, and end-of-stream only after
\* the producer ended and every chunk was yielded.
C3_FifoDelivery ==
    /\ \A c \in ConsIds :
        LET s == consumers[c].stream
            g == consumers[c].got
        IN  /\ consumers[c].st = "Pending" => g = <<>> /\ ~consumers[c].ended
            /\ consumers[c].st = "Ready" =>
                /\ msg[s].addr.route = "Records"
                /\ KeyOf(msg[s].addr) = consumers[c].key
                /\ g = [i \in 1..Len(g) |-> Chunk(s, i)]
                /\ Len(g) = rd[s]
                /\ Len(g) <= pushed[s]
                /\ consumers[c].ended => closed[s] /\ Len(g) = pushed[s]
    /\ (last.op \in {"poll", "poll_ready"} /\ consumers[last.id].st = "Ready") =>
        LET s == consumers[last.id].stream
            g == consumers[last.id].got
        IN  /\ last.out \in {"Pending", "Item", "End"}
            /\ last.out = "Pending" => Len(g) = pushed[s] /\ ~closed[s]
            /\ last.out = "Item" => g # <<>> /\ ~consumers[last.id].ended
            /\ last.out = "End" => consumers[last.id].ended

\* A consumer has yielded every chunk of a stream of MaxChunks chunks and
\* then the end of the stream.
C3_Witness ==
    \E c \in ConsIds :
        /\ consumers[c].st = "Ready"
        /\ consumers[c].ended
        /\ Len(consumers[c].got) = MaxChunks
        /\ last.op = "poll_ready" /\ last.id = c /\ last.out = "End"

\* C4 (state part): a poll on a vacant cell answers Pending and leaves
\* Waiting(its waker); add_stream on Waiting(w) stores Ready and wakes w; a
\* poll on a Ready cell obtains that stream; and whenever a stream is Ready
\* while a consumer that was answered Pending is still pending on its key,
\* that consumer's task has been woken since.
C4_WakeInv ==
    /\ (last.op = "poll" /\ last.pre.st = "Vacant") =>
            /\ last.out = "Pending"
            /\ consumers[last.id].parked
            /\ streams[last.key] = Waiting(consumers[last.id].owner)
    /\ (last.op = "add_stream" /\ last.pre.st = "Waiting") =>
            /\ last.wake = last.pre.waker
            /\ streams[last.key] = Ready(last.id)
    /\ (last.op = "poll" /\ last.pre.st = "Ready") =>
            /\ consumers[last.id].st = "Ready"
            /\ consumers[last.id].stream = last.pre.stream
            /\ streams[last.key] = Completed
    /\ \A c \in ConsIds :
            (consumers[c].st = "Pending" /\ consumers[c].parked
                /\ streams[consumers[c].key].st = "Ready") => notified[c]

\* C4: delivery does not depend on the arrival order of consumer and
\* producer, and no wake-up is lost: C4_WakeInv always holds, and a stream
\* that is Ready for a key on which a consumer is waiting is eventually
\* taken.
C4_NoLostWakeup ==
    /\ []C4_WakeInv
    /\ \A k \in StreamKeys :
        (streams[k].st = "Ready"
            /\ \E c \in ConsIds : consumers[c].st = "Pending"
                    /\ consumers[c].parked /\ consumers[c].key = k)
        ~> (streams[k].st = "Completed")

\* The consumer polled first and is waiting; add_stream has just stored the
\* stream and woken its task.
C4_Witness ==
    /\ last.op = "add_stream"
    /\ last.pre.st = "Waiting"
    /\ \E c \in ConsIds :
            /\ consumers[c].st = "Pending" /\ consumers[c].parked
            /\ consumers[c].key = last.key
            /\ consumers[c].owner = last.wake
            /\ notified[c]

\* C5: a send() of a Records route that returned Ok had its packet taken by
\* the inbound loop and add_stream done for its key, so its stream is Ready
\* in the cell or was taken by a consumer; and once the ack is given the
\* send() can return at once, whatever the consumers have done.
C5_SendReturnsOnAck ==
    \A s \in SendIds :
        LET key == KeyOf(msg[s].addr) IN
        msg[s].addr.route = "Records" =>
            /\ (msg[s].pc = "returned" /\ msg[s].result.kind = "Ok") =>
                    /\ s \in taken
                    /\ handled[s].res = "Ok"
                    /\ stored[key] = {s}
                    /\ \/ streams[key] = Ready(s)
                       \/ streams[key] = Completed /\ handed[key] = {s}
            /\ (msg[s].pc = "queued" /\ ack[s] = "sent") => ENABLED SendReturn(s)

\* A Records send() has returned Ok while no consumer has called receive:
\* its stream sits Ready in the collection.
C5_Witness ==
    \E s \in SendIds :
        /\ msg[s].addr.route = "Records"
        /\ msg[s].pc = "returned" /\ msg[s].result.kind = "Ok"
        /\ streams[KeyOf(msg[s].addr)] = Ready(s)
        /\ \A c \in ConsIds : consumers[c].st = "none"

\* C6 as stated: every packet the inbound loop took, once its handling is
\* over, was replied to exactly once on its ack channel.
C6_Original ==
    \A s \in taken : handled[s].res # "-" => ackSends[s] = 1

\* C6, amended: no packet is replied to more than once; the loop calls
\* ack.send for a packet exactly when its handling ended without a panic,
\* and the value sent is the handler's result (Ok for Records, the callback's
\* result otherwise); a handling that panics sends no reply and drops the
\* ack sender, and a packet never taken is never replied to.
C6_AckOnce ==
    \A s \in SendIds :
        /\ ackSends[s] <= 1
        /\ ackSends[s] = 1 <=> handled[s].res \notin {"-", "panic"}
        /\ ack[s] = "sent" => ackSends[s] = 1 /\ ackVal[s] = handled[s].res
        /\ (ackSends[s] = 1 /\ ack[s] # "sent") =>
                ack[s] = "rxDropped" /\ loop.pc = "panicked" /\ loop.cur = s
        /\ handled[s].res = "panic" =>
                ackSends[s] = 0 /\ ack[s] \in {"txDropped", "rxDropped"}
        /\ msg[s].addr.route = "Records" => handled[s].res \in {"-", "Ok", "panic"}
        /\ s \notin taken => ackSends[s] = 0 /\ handled[s] = NotHandled
        /\ handled[s].res # "-" => s \in taken /\ (loop.pc = "callback" => loop.cur # s)

\* A callback returned an error and the loop sent exactly that as the ack.
C6_Witness ==
    \E s \in taken :
        /\ handled[s].res \in CallbackErrors
        /\ ack[s] = "sent" /\ ackVal[s] = handled[s].res /\ ackSends[s] = 1

\* C7: what a returned send() reports: an io error of kind ConnectionAborted
\* exactly when the inbox was closed at the push (the packet was never
\* queued); Rejected naming dest exactly when the ack sender was dropped
\* without a reply; the callback's own error exactly when the callback
\* returned one; Ok exactly when the handler's result was Ok.
C7_SendResults ==
    \A s \in SendIds :
        LET r == msg[s].result IN
        /\ msg[s].pc # "returned" => r = NoResult
        /\ msg[s].pc = "returned" =>
            /\ r.kind \in {"Io", "Rejected", "Callback", "Ok"}
            /\ r.kind = "Io" <=> ack[s] = "none"
            /\ r.kind = "Io" =>
                    /\ r.err = "ConnectionAborted"
                    /\ loop.pc = "panicked" /\ s \notin taken
            /\ r.kind = "Rejected" <=> ack[s] = "txDropped"
            /\ r.kind = "Rejected" =>
                    /\ r.dest = Dest /\ msg[s].dest = Dest
                    /\ ackSends[s] = 0 /\ loop.pc = "panicked"
            /\ r.kind = "Callback" <=> handled[s].res \in CallbackErrors
            /\ r.kind = "Callback" => r.err = handled[s].res /\ ack[s] = "sent"
            /\ r.kind = "Ok" <=> handled[s].res = "Ok"

\* A send() has returned Rejected for a packet that was still queued when
\* the inbound loop died.
C7_Witness ==
    \E s \in SendIds :
        /\ msg[s].pc = "returned"
        /\ msg[s].result = [kind |-> "Rejected", dest |-> Dest, err |-> "channel closed"]
        /\ s \notin taken

\* The ReceiveQuery packets whose callback returned Ok and whose id was
\* recorded, and those on which the loop panicked after the callback
\* returned an id.
IssuedBy == {s \in SendIds : msg[s].addr.route = "ReceiveQuery"
                              /\ handled[s].res = "Ok"}
RefusedAt == {s \in SendIds : msg[s].addr.route = "ReceiveQuery"
                               /\ handled[s].res = "panic"}

C8_IssuedIds ==
    /\ activeQueries = {handled[s].query_id : s \in IssuedBy}
    /\ \A s, r \in IssuedBy : s # r => handled[s].query_id # handled[r].query_id
    /\ \A s \in RefusedAt :
            /\ handled[s].query_id \in activeQueries
            /\ loop = [pc |-> "panicked", cur |-> s,
                       panic |-> "the same query id is generated twice"]
    /\ \A s \in SendIds :
            handled[s].res \in CallbackErrors => handled[s].query_id = "-"

\* C8: the inbound loop panics when a receive_query callback returns a
\* query id that an earlier successful receive_query callback returned; the
\* issued ids are exactly those of the successful callbacks (an error or a
\* prepare_query records none), and the set never loses an id.
C8_DuplicateQueryPanics ==
    /\ []C8_IssuedIds
    /\ [][activeQueries \subseteq activeQueries']_vars

\* The loop has just panicked on a repeated query id.
C8_Witness ==
    /\ loop.pc = "panicked"
    /\ loop.panic = "the same query id is generated twice"
    /\ handled[loop.cur].query_id \in activeQueries
    /\ \E s \in IssuedBy : handled[s].query_id = handled[loop.cur].query_id

\* The packet the inbound loop acts on in this step, if it is a query packet:
\* the head of the inbox when the loop receives, the current packet when a
\* callback returns.
QueryStep ==
    \/ /\ loop.pc = "recv" /\ inbox # <<>> /\ taken' # taken
       /\ msg[Head(inbox)].addr.route # "Records"
    \/ loop.pc = "callback" /\ handled' # handled

C9_Callbacks ==
    \A s \in SendIds :
        /\ s \notin taken => cbCalls[s] = <<>>
        /\ msg[s].addr.route = "Records" => cbCalls[s] = <<>>
        /\ (s \in taken /\ msg[s].addr.route = "ReceiveQuery") =>
                /\ Len(cbCalls[s]) = 1
                /\ cbCalls[s][1].cb = "receive_query"
                /\ cbCalls[s][1].arg = msg[s].sent
        /\ (s \in taken /\ msg[s].addr.route = "PrepareQuery") =>
                /\ Len(cbCalls[s]) = 1
                /\ cbCalls[s][1].cb = "prepare_query"
        /\ msg[s].addr.route # "Records" =>
                \A k \in StreamKeys :
                    /\ s \notin stored[k] /\ s \notin handed[k]
                    /\ streams[k].stream # s

\* C9: every ReceiveQuery packet the loop takes invokes receive_query exactly
\* once, with the QueryConfig the sender serialized; a Records packet invokes
\* no callback; and a step of the loop on a query packet leaves the stream
\* collection as it was.
C9_CallbackOncePerQuery ==
    /\ []C9_Callbacks
    /\ [][QueryStep => UNCHANGED <<streams, stored, handed, poisoned>>]_vars

\* A ReceiveQuery packet carrying the Fp32BitPrime config was delivered and
\* its callback returned, having been called once with that config.
C9_Witness ==
    \E s \in taken :
        /\ msg[s].addr.route = "ReceiveQuery"
        /\ msg[s].sent.field_type = "Fp32BitPrime"
        /\ handled[s].res = "Ok"
        /\ Len(cbCalls[s]) = 1
        /\ cbCalls[s][1].arg = msg[s].sent

\* The outputs of helper h and of its right peer at one index agree on the
\* value they share.
Correlated(l, r) ==
    /\ l.values[2] = r.values[1]
    /\ l.fields[2] = r.fields[1]
    /\ l.replicated.right = r.replicated.left

\* C10: whenever a helper h and its right peer n have generated at the same
\* index, whichever index it is, the right value of h equals the left value
\* of n, as raw values, as field values and as the halves of their
\* replicated shares; so the shares the three helpers generate at one index
\* are a consistent replicated sharing.
C10_PrssCorrelation ==
    \A h \in Helpers :
        (generated[h] # NoOutput /\ generated[h].index = generated[Right(h)].index)
            => Correlated(generated[h], generated[Right(h)])

\* All three helpers generated at the same index; the ring of shares closes,
\* and the three shared values are not all the same.
C10_Witness ==
    /\ \A h \in Helpers :
          /\ generated[h] # NoOutput
          /\ generated[h].index = generated[1].index
          /\ Correlated(generated[h], generated[Right(h)])
    /\ generated[1].replicated.left # generated[1].replicated.right
    /\ generated[1].values[1] # generated[2].values[1]

\* C11: the zero share a helper generates is l - r of its own field values
\* at that index, and when the three helpers have generated at one index,
\* their three zero shares add up to 0 in the field.
C11_ZeroSharing ==
    /\ \A h \in Helpers :
          generated[h] # NoOutput =>
              generated[h].zero
                  = (generated[h].fields[1] + PRIME - generated[h].fields[2]) % PRIME
    /\ (\A h \in Helpers : /\ generated[h] # NoOutput
                           /\ generated[h].index = generated[1].index)
          => (generated[1].zero + generated[2].zero + generated[3].zero) % PRIME = 0

\* The three helpers generated at one index and their zero shares, which are
\* not all 0, add up to 0.
C11_Witness ==
    /\ \A h \in Helpers : /\ generated[h] # NoOutput
                          /\ generated[h].index = generated[1].index
    /\ generated[1].zero # 0
    /\ generated[2].zero # 0
    /\ (generated[1].zero + generated[2].zero + generated[3].zero) % PRIME = 0

SelfExchange(h) ==
    \/ public_key(sk[Left(h)]["right"]) = public_key(sk[h]["left"])
    \/ public_key(sk[Right(h)]["left"]) = public_key(sk[h]["right"])

\* C13: a key exchange with the helper's own public key panics and leaves the
\* helper without generators, whether or not the build has debug assertions.
C13_SelfExchangeRefused ==
    \A h \in Helpers :
        (endpoint[h].st # "none" /\ SelfExchange(h))
            => endpoint[h].st = "panicked"

\* The steps of one kind made so far, in order, with inputs and results.
LogOf(op) == SelectSeq(zk.log, LAMBDA e : e.op = op)
Entries(op) == {LogOf(op)[i] : i \in 1..Len(LogOf(op))}

\* C14: a verify_proof that returns gives as out_share the value at r of the
\* polynomial of degree < P behind zkp, whatever r is; at a point r of
\* 0..P-1 that is zkp[r].
C14_OutShareIsValueAtR ==
    \A e \in Entries("verify") :
        e.res.panic = NoPanic =>
            /\ e.step.poly # <<>> => e.res.out_share = PolyAt(e.step.poly, e.step.r)
            /\ e.step.r < Len(e.step.zkp) =>
                  e.res.out_share = e.step.zkp[e.step.r + 1]

\* verify_proof::<2,3> was called on the values of a polynomial of degree 2
\* with a challenge beyond the points 0..2, and returned the polynomial's
\* value there, which differs from all three entries of zkp.
C14_Witness ==
    \E e \in Entries("verify") :
        /\ e.res.panic = NoPanic
        /\ Len(e.step.poly) = 3 /\ e.step.poly[3] # 0
        /\ e.step.r > 2
        /\ e.res.out_share = PolyAt(e.step.poly, e.step.r)
        /\ \A i \in 1..3 : e.res.out_share # e.step.zkp[i]

RECURSIVE SumSeq(_)
SumSeq(s) == IF s = <<>> THEN 0 ELSE Head(s) + SumSeq(Tail(s))

\* C15: a verify_proof that returns gives as zero_share the sum of the
\* entries 0..lambda-1 of zkp minus the out_share it was passed.
C15_ZeroShare ==
    \A e \in Entries("verify") :
        e.res.panic = NoPanic =>
            e.res.zero_share
                = ToField(SumSeq(SubSeq(e.step.zkp, 1, e.step.lambda)) - e.out_share)

\* verify_proof::<2,3> returned a zero_share that is the sum of the first two
\* entries minus the out_share passed in; that differs from the sum of all
\* three entries minus it, and from the sum of the first two minus the new
\* out_share.
C15_Witness ==
    \E e \in Entries("verify") :
        /\ e.res.panic = NoPanic
        /\ e.step.lambda = 2 /\ Len(e.step.zkp) = 3
        /\ e.res.zero_share = ToField(e.step.zkp[1] + e.step.zkp[2] - e.out_share)
        /\ e.res.zero_share # ToField(SumSeq(e.step.zkp) - e.out_share)
        /\ e.res.zero_share
              # ToField(e.step.zkp[1] + e.step.zkp[2] - e.res.out_share)

\* The results of the verify_proof calls made so far, in order.
VerifyResults == SelectSeq(zk.log, LAMBDA e : e.op = "verify")

\* C16: in the sample session that starts with out_share 27, the first
\* verify_proof::<4,7> gives out_share 0 and zero_share 3, the second one,
\* fed that out_share, gives out_share 13 and zero_share 0, and the
\* verify_proof::<3,5> of the final round, fed 13, gives out_share 0.
C16_SampleProof ==
    (Len(zk.log) > 0 /\ zk.log[1].op = "verify" /\ zk.log[1].out_share = 27
        /\ zk.log[1].step.zkp = <<0, 0, 13, 17, 11, 25, 7>>) =>
            /\ zk.log[1].res.out_share = 0 /\ zk.log[1].res.zero_share = 3
            /\ Len(VerifyResults) >= 2 =>
                  /\ VerifyResults[2].out_share = 0
                  /\ VerifyResults[2].step.zkp = <<11, 25, 17, 9, 22, 23, 3>>
                  /\ VerifyResults[2].res.out_share = 13
                  /\ VerifyResults[2].res.zero_share = 0
            /\ Len(VerifyResults) >= 3 =>
                  /\ VerifyResults[3].out_share = 13
                  /\ VerifyResults[3].step.zkp = <<21, 1, 6, 25, 1>>
                  /\ VerifyResults[3].step.lambda = 3
                  /\ VerifyResults[3].res.out_share = 0

\* The sample session has made its three verify_proof calls.
C16_Witness ==
    /\ Len(VerifyResults) = 3
    /\ VerifyResults[1].out_share = 27
    /\ VerifyResults[3].step.r = 30
    /\ VerifyResults[3].res.out_share = 0

\* The entries of the chunks of a vector, one after the other.
RECURSIVE Flatten(_)
Flatten(vec) == IF vec = <<>> THEN <<>> ELSE Head(vec) \o Flatten(Tail(vec))

\* The Lagrange evaluation at r of the polynomial given by its values at the
\* points 0..Len(chunk)-1.
ValueAtR(chunk, r) ==
    eval(LagrangeTable(CanonicalLagrangeDenominator(Len(chunk)), r), chunk)

\* C17: recurse_u_or_v::<lambda>, lambda >= 1, on n chunks returns
\* ceil(n / lambda) chunks of lambda entries; entry k of the flattened result
\* is the value at r of input chunk k for k < n, and zero from n on; an empty
\* input gives an empty result; and the sample u, in chunks of 4, with r = 22
\* gives [0,0,26,0], [7,18,24,13].
C17_Compression ==
    \A e \in Entries("recurse") :
        LET n == Len(e.uv)
            lambda == e.step.lambda
            flat == Flatten(e.res.vec)
        IN  /\ n = 0 => (e.res.panic = NoPanic /\ e.res.vec = <<>>)
            /\ lambda >= 1 =>
                  /\ e.res.panic = NoPanic
                  /\ Len(e.res.vec) = (n + lambda - 1) \div lambda
                  /\ \A c \in 1..Len(e.res.vec) : Len(e.res.vec[c]) = lambda
                  /\ \A k \in 1..Len(flat) :
                        flat[k] = IF k <= n THEN ValueAtR(e.uv[k], e.step.r) ELSE 0
            /\ (e.uv = SampleProofU.uv /\ lambda = 4 /\ e.step.r = 22) =>
                  e.res.vec = << <<0, 0, 26, 0>>, <<7, 18, 24, 13>> >>

\* A vector of three chunks of two was compressed into two chunks, the
\* second one padded with a zero.
C17_Witness ==
    \E e \in Entries("recurse") :
        /\ Len(e.uv) = 3 /\ e.step.lambda = 2
        /\ Len(e.res.vec) = 2
        /\ e.res.vec[2][1] # 0 /\ e.res.vec[2][2] = 0
        /\ e.res.vec[1][1] # e.res.vec[1][2]

\* The statement that no call ever panics.
C18_Original ==
    \A e \in Entries("verify") \cup Entries("recurse") : e.res.panic = NoPanic

\* C18: verify_proof::<lambda, P> returns a pair of field elements for every
\* out_share, zkp and r, r an interpolation point included, exactly when
\* lambda <= P, and panics on an index past the end of zkp when lambda > P;
\* recurse_u_or_v::<lambda> returns for every input and r when lambda >= 1,
\* and for lambda = 0 panics on any input that is not empty.
C18_Total ==
    /\ \A e \in Entries("verify") :
          /\ e.res.panic # NoPanic <=> e.step.lambda > Len(e.step.zkp)
          /\ e.res.out_share \in Field /\ e.res.zero_share \in Field
    /\ \A e \in Entries("recurse") :
          e.res.panic # NoPanic <=> (e.step.lambda = 0 /\ e.uv # <<>>)

\* verify_proof::<2,3> was called with r one of the points 0..2 and returned
\* the entry of zkp at that point.
C18_Witness ==
    \E e \in Entries("verify") :
        /\ e.step.lambda = 2 /\ Len(e.step.zkp) = 3 /\ e.step.r = 1
        /\ e.res.panic = NoPanic
        /\ e.res.out_share = e.step.zkp[2]
        /\ e.res.out_share # e.step.zkp[1]

\* ------------------------------------------------------------ report specs
\* A report is encrypted, the bytes are parsed and the result is decrypted.
NextReport ==
    \/ EncryptReport
    \/ ParseReport
    \/ DecryptReport
SpecReport == InitReport /\ [][NextReport]_vars

\* A buffer is parsed and, when it is accepted, decrypted.
NextParse ==
    \/ ParseReport
    \/ DecryptReport
SpecParse == InitParse /\ [][NextParse]_vars

\* A report is encrypted; its bytes may be changed, and the registry may be
\* another one, before the bytes are parsed and decrypted.
NextTamper ==
    \/ EncryptReport
    \/ \E p \in TamperOffsets, d \in TamperDeltas : TamperByte(p, d)
    \/ TamperLength
    \/ OtherRegistry
    \/ ParseReport
    \/ DecryptReport
SpecTamper == InitTamper /\ [][NextTamper]_vars

\* ------------------------------------------------------- solved_bits spec
\* The three helpers run solved_bits on the same context and record.
NextSolved ==
    \/ \E h \in Helpers : GenerateRandomBits(h)
    \/ \E h \in Helpers : IsLessThanP(h)
    \/ \E h \in Helpers : SolvedBits(h)
SpecSolved == InitSolved /\ [][NextSolved]_vars

\* ---------------------------------------------------------------- C19
\* C19: for every valid report (event type source or trigger, ASCII site
\* domain), every key_id the registry holds and every state of the rng,
\* encrypt succeeds, from_bytes accepts the bytes it produced, and decrypt
\* with the same registry succeeds and returns a Report equal to the
\* original in every field.
ValidInput ==
    /\ rp.report.event_type \in EventTypes
    /\ is_ascii(rp.report.site_domain)
    /\ rp.key_id \in DOMAIN rp.registry
C19_Roundtrip ==
    ValidInput =>
        /\ rp.buf.kind \in {"-", "Ok"}
        /\ rp.parsed.kind \in {"-", "Ok"}
        /\ rp.decrypted.kind \in {"-", "Ok"}
        /\ rp.parsed.kind = "Ok" => rp.parsed.val = rp.buf.val
        /\ rp.decrypted.kind = "Ok" =>
              /\ rp.decrypted.val = rp.report
              /\ \A f \in DOMAIN rp.report : rp.decrypted.val[f] = rp.report[f]

\* A trigger report with a site domain of MaxDomain letters, encrypted to the
\* second key of a registry of two, went through encrypt, from_bytes and
\* decrypt.
C19_Witness ==
    /\ ValidInput
    /\ rp.report.event_type = "Trigger"
    /\ Len(rp.report.site_domain) = MaxDomain
    /\ rp.report.timestamp # 0 /\ rp.report.epoch # 0
    /\ rp.key_id = 1
    /\ rp.decrypted.kind = "Ok"

\* ---------------------------------------------------------------- C20
\* The buffer of the session has been handed to from_bytes.
Parsed == rp.buf.kind = "Ok" /\ rp.parsed.kind # "-"
EventByte == rp.buf.val[EVENT_TYPE_OFFSET + 1]
ValidEventByte == EventByte \in {0, 1}
AsciiDomain == is_ascii(SliceFrom(rp.buf.val, SITE_DOMAIN_OFFSET))
ErrorKinds == <<"BadEventType", "NonAsciiString", "Crypt">>

\* The classification from_bytes makes of the buffer of the session.
Classified ==
    /\ rp.parsed.kind = "BadEventType" <=> ~ValidEventByte
    /\ rp.parsed.kind = "BadEventType" => rp.parsed.val = EventByte
    /\ rp.parsed.kind = "NonAsciiString" <=> (ValidEventByte /\ ~AsciiDomain)
    /\ rp.parsed.kind = "Ok" <=> (ValidEventByte /\ AsciiDomain)
    /\ rp.parsed.kind = "Ok" =>
          /\ rp.parsed.val = rp.buf.val
          /\ EventByte = 0 => event_type(rp.parsed.val) = "Source"
          /\ EventByte = 1 => event_type(rp.parsed.val) = "Trigger"
    /\ \A i, j \in 1..Len(ErrorKinds) : i # j => ErrorKinds[i] # ErrorKinds[j]
    /\ rp.parsed.kind # "Crypt"
    /\ rp.decrypted.kind \in {"-", "Ok", "Crypt"}

\* C20 as stated, for every buffer: BadEventType when the event-type byte is
\* neither 0 nor 1, NonAsciiString when the event type is valid but the site
\* domain has a non-ASCII byte, Ok otherwise; the event type is looked at
\* first, 0 is a source and 1 a trigger, and the error kinds are distinct.
C20_Original ==
    Parsed =>
        /\ Len(rp.buf.val) > EVENT_TYPE_OFFSET
        /\ Classified

\* C20: for every buffer of at least SITE_DOMAIN_OFFSET bytes, from_bytes
\* returns BadEventType when the event-type byte is neither 0 nor 1 (whatever
\* the site domain), NonAsciiString when the event type is valid but the site
\* domain has a non-ASCII byte, and Ok otherwise; 0 is a source and 1 a
\* trigger, and BadEventType, NonAsciiString and Crypt are distinct kinds, of
\* which from_bytes never returns Crypt.  A shorter buffer is not classified:
\* from_bytes returns BadEventType when the event-type byte is there and is
\* neither 0 nor 1, and panics on an index out of range otherwise.
C20_Classification ==
    Parsed =>
        /\ Len(rp.buf.val) >= SITE_DOMAIN_OFFSET => Classified
        /\ Len(rp.buf.val) < SITE_DOMAIN_OFFSET =>
              IF Len(rp.buf.val) > EVENT_TYPE_OFFSET /\ ~ValidEventByte
              THEN rp.parsed = Outcome("BadEventType", EventByte)
              ELSE rp.parsed.kind = "Panic"

\* from_bytes has parsed a buffer whose event-type byte is invalid and whose
\* site domain is not ASCII, and returned BadEventType.
C20_Witness ==
    /\ Parsed
    /\ Len(rp.buf.val) > SITE_DOMAIN_OFFSET
    /\ ~ValidEventByte
    /\ ~AsciiDomain
    /\ rp.parsed.kind = "BadEventType"

\* ---------------------------------------------------------------- C21
\* The bytes encrypt has produced for the report of the session.
Encrypted == rp.buf.kind = "Ok"
Sealed ==
    seal_in_place(rp.registry, serialize_pair(rp.report.mk_shares, Gf40Bytes),
        Info_new(rp.key_id, rp.report.epoch, rp.report.event_type,
                 rp.report.site_domain).info, rp.rng)

\* C21: encrypt emits, in this order, timestamp (4 bytes, little-endian),
\* breakdown key (1), trigger value (8), encapsulated key, ciphertext, tag,
\* event type (1 byte, 0 a source and 1 a trigger), key_id (1), epoch (2
\* bytes, little-endian) and the bytes of the site domain; the length is
\* 13 + |encap| + |ct+tag| + 4 + |domain|, and every accessor of
\* EncryptedReport reads back the field encrypt wrote at its offset.
C21_Layout ==
    Encrypted =>
        LET data == rp.buf.val
            r == rp.report
        IN  /\ Len(data) = 13 + EncapKeySize + CiphertextSize + 4 + Len(r.site_domain)
            /\ \A i \in 0..3 : data[i + 1] = (r.timestamp \div (256 ^ i)) % 256
            /\ data[5] = r.breakdown_key
            /\ \A i \in 0..3 :
                  /\ data[5 + i + 1] = (r.trigger_value[1] \div (256 ^ i)) % 256
                  /\ data[9 + i + 1] = (r.trigger_value[2] \div (256 ^ i)) % 256
            /\ SubSeq(data, 14, 13 + EncapKeySize) = Sealed.encap_key
            /\ SubSeq(data, 14 + EncapKeySize, 13 + EncapKeySize + CiphertextSize)
                  = Sealed.ciphertext \o Sealed.tag
            /\ LET e == 13 + EncapKeySize + CiphertextSize
               IN  /\ data[e + 1] = (IF r.event_type = "Source" THEN 0 ELSE 1)
                   /\ data[e + 2] = rp.key_id
                   /\ data[e + 3] = r.epoch % 256
                   /\ data[e + 4] = r.epoch \div 256
                   /\ SubSeq(data, e + 5, Len(data)) = r.site_domain
            /\ timestamp(data) = r.timestamp
            /\ breakdown_key(data) = r.breakdown_key
            /\ trigger_value(data) = r.trigger_value
            /\ encap_key(data) = Sealed.encap_key
            /\ match_key_ciphertext(data) = Sealed.ciphertext \o Sealed.tag
            /\ event_type(data) = r.event_type
            /\ key_id(data) = rp.key_id
            /\ epoch(data) = r.epoch
            /\ site_domain(data) = r.site_domain

\* encrypt has written a trigger report whose fields fill several bytes, with
\* a site domain of MaxDomain letters, under the second key of the registry.
C21_Witness ==
    /\ Encrypted
    /\ rp.report.event_type = "Trigger"
    /\ rp.report.timestamp > 65536 /\ rp.report.epoch > 256
    /\ rp.report.trigger_value[2] > 65536
    /\ Len(rp.report.site_domain) = MaxDomain
    /\ rp.key_id = 1

\* ---------------------------------------------------------------- C22
\* decrypt has been called on the report from_bytes returned.
Decrypted == rp.sent.kind = "Ok" /\ rp.decrypted.kind # "-"
InfoOf(data) == <<key_id(data), epoch(data), event_type(data), site_domain(data)>>
OpenFails ==
    \/ match_key_ciphertext(rp.parsed.val) # match_key_ciphertext(rp.sent.val)
    \/ encap_key(rp.parsed.val) # encap_key(rp.sent.val)
    \/ InfoOf(rp.parsed.val) # InfoOf(rp.sent.val)
    \/ key_id(rp.parsed.val) \notin DOMAIN rp.registry

\* C22: decrypt returns a Crypt error and no Report whenever HPKE open fails:
\* when the ciphertext, the tag or the encapsulated key was altered, when
\* key_id, epoch, event_type or site_domain of the report differs from the
\* value used at encryption, or when the registry holds no key for key_id;
\* and it returns a Report in every other case.
C22_CryptError ==
    Decrypted =>
        /\ OpenFails => rp.decrypted = Outcome("Crypt", <<>>)
        /\ ~OpenFails => rp.decrypted.kind = "Ok"

\* decrypt has refused a report whose tag was altered in its last byte.
C22_Witness ==
    /\ Decrypted
    /\ \E i \in 1..Len(rp.sent.val) :
          /\ i = EVENT_TYPE_OFFSET
          /\ rp.parsed.val[i] # rp.sent.val[i]
    /\ rp.decrypted.kind = "Crypt"

\* ---------------------------------------------------------------- C23
Done(h) == sb.pc[h] = "done"
AllDone == \A h \in Helpers : Done(h)

\* C23: in one run of solved_bits by the three helpers on the same context
\* and record, either all three return None or all three return Some: every
\* helper decides on the revealed comparison value, which is the same at
\* every helper, and all helpers return the same number of bit shares.
C23_AbortTogether ==
    \A g, h \in Helpers :
        /\ (sb.pc[g] \in {"compared", "done"} /\ sb.pc[h] \in {"compared", "done"})
              => sb.less[g] = sb.less[h]
        /\ (Done(g) /\ Done(h)) =>
              /\ sb.res[g].some = sb.res[h].some
              /\ Len(sb.res[g].b_b) = Len(sb.res[h].b_b)

\* The random bits formed a number that is not less than the prime, under
\* masks that are not zero, and the three helpers have all returned None.
C23_Witness ==
    /\ AllDone
    /\ bits_to_value(sb.bits) >= PRIME
    /\ sb.mask = <<1, 1>>
    /\ \A h \in Helpers : ~sb.res[h].some

\* ---------------------------------------------------------------- C24
Reconstructed(i) ==
    reconstruct([h \in Helpers |-> sb.res[h].b_b[i]])

\* C24: solved_bits returns None exactly when the number formed by the
\* generated random bits is not less than the prime; when it returns Some,
\* every b_i reconstructs to 0 or 1 and b_p reconstructs to the sum of
\* 2^i * b_i, the integer of the reconstructed bits, which is less than the
\* prime.
C24_SolvedBits ==
    /\ \A h \in Helpers :
          Done(h) => (~sb.res[h].some <=> bits_to_value(sb.bits) >= PRIME)
    /\ (AllDone /\ \A h \in Helpers : sb.res[h].some) =>
          LET n == Len(sb.res[1].b_b)
              b == [i \in 1..n |-> Reconstructed(i)]
              b_p == reconstruct([h \in Helpers |-> sb.res[h].b_p])
          IN  /\ n = PrimeBits
              /\ \A i \in 1..n : b[i] \in {0, 1}
              /\ b = sb.bits
              /\ b_p = bits_to_value(b)
              /\ b_p < PRIME

\* The three helpers have returned Some for the bits of the number 22, shared
\* under masks that are not zero.
C24_Witness ==
    /\ AllDone
    /\ sb.bits = <<0, 1, 1, 0, 1>>
    /\ sb.mask = <<1, 1>>
    /\ \A h \in Helpers : sb.res[h].some

\* ---------------------------------------------------------------- C25
\* The transitions of a cell of the map: absent to Waiting, absent to Ready,
\* Waiting to Ready, Ready to Completed.
CellStep(old, new) ==
    \/ old.st = "Vacant" /\ new.st \in {"Waiting", "Ready"}
    \/ old.st = "Waiting" /\ new.st = "Ready"
    \/ old.st = "Ready" /\ new.st = "Completed"
CellSteps ==
    \A k \in DOMAIN streams : streams'[k] = streams[k] \/ CellStep(streams[k], streams'[k])

\* C25: every cell of the StreamCollection makes only the transitions
\* absent to Waiting, absent to Ready, Waiting to Ready and Ready to
\* Completed: Completed is absorbing, Ready never goes back to Waiting, and
\* an entry once inserted is never removed from the map.
C25_CellLifecycle == [][CellSteps]_vars

\* A cell has just gone from Ready to Completed, its stream taken by
\* add_waker, while the cell of another key is Waiting.
C25_Witness ==
    /\ last.op = "add_waker"
    /\ last.pre.st = "Ready"
    /\ last.id \in stored[last.key]
    /\ streams[last.key] = Completed
    /\ \E k \in DOMAIN streams : streams[k].st = "Waiting"

\* ---------------------------------------------------------------- C26
\* add_stream has just stored a stream in a cell that was Waiting.
AddedToWaiting == last.op = "add_stream" /\ last.pre.st = "Waiting"

\* C26 as stated: when add_stream reaches a key whose cell is Waiting, the
\* consumer is woken and in that same step takes the stream, the cell
\* becoming Completed, so that the cell is never seen Ready.
C26_Original ==
    AddedToWaiting =>
        /\ streams[last.key] = Completed
        /\ last.id \in handed[last.key]

\* C26: when add_stream reaches a key whose cell is Waiting, it stores the
\* stream, the cell becoming Ready, and wakes the stored waker; the stream is
\* handed to nobody in that step. The cell goes from Ready to Completed in a
\* later step, the poll of a consumer of the key whose add_waker takes the
\* stream.
C26_WakeThenTake ==
    /\ AddedToWaiting =>
          /\ last.panic = NoPanic
          /\ last.wake = last.pre.waker
          /\ streams[last.key] = Ready(last.id)
          /\ handed[last.key] = {}
          /\ \A c \in ConsIds :
                (consumers[c].st = "Pending" /\ consumers[c].owner = last.wake)
                    => notified[c]
    /\ (last.op = "poll" /\ last.pre.st = "Ready") =>
          /\ streams[last.key] = Completed
          /\ last.pre.stream \in handed[last.key]
          /\ consumers[last.id].st = "Ready"
          /\ consumers[last.id].stream = last.pre.stream

\* add_stream has stored a stream for a parked consumer: the cell is Ready
\* and the consumer, woken, has not polled yet.
C26_Witness ==
    /\ AddedToWaiting
    /\ streams[last.key].st = "Ready"
    /\ \E c \in ConsIds :
          /\ consumers[c].st = "Pending"
          /\ consumers[c].key = last.key
          /\ consumers[c].parked
          /\ notified[c]

\* ---------------------------------------------------------------- C27
\* The map as it was before the last call, and what the call did with it.
PreColl == [k \in DOMAIN streams |-> IF k = last.key THEN last.pre ELSE streams[k]]
LastAddStream == add_stream(PreColl, last.key, last.id)
LastAddWaker == add_waker(PreColl, last.key, last.wake)

\* C27: the collection's mutex is held only across the map mutation: at the
\* moment add_stream wakes a stored waker, and at the moment add_stream or
\* add_waker raises a panic or a failing assertion, the mutex is not held.
C27_LockReleased ==
    /\ (last.op = "add_stream" /\ last.panic # PoisonPanic) =>
          /\ LastAddStream.wake # NoTask => ~LastAddStream.guardAtWake
          /\ LastAddStream.panic # NoPanic => ~LastAddStream.guardAtPanic
    /\ (last.op = "add_waker" /\ last.panic # PoisonPanic) =>
          (LastAddWaker.panic # NoPanic => ~LastAddWaker.guardAtPanic)
    /\ ~poisoned

\* ---------------------------------------------------------------- C28
\* The messages the loop has taken and not yet finished with.
InHandling == {s \in taken : handled[s].res = "-"}
QueuedRecords ==
    {s \in SendIds : Queued(s) /\ msg[s].addr.route = "Records"}

\* The loop takes a message only from the head of the inbox, and only when
\* it has finished with every message taken before.
TakesInOrder ==
    taken' # taken =>
        /\ inbox # <<>>
        /\ taken' = taken \cup {Head(inbox)}
        /\ Head(inbox) \notin taken
        /\ InHandling = {}

\* C28: the inbound loop handles one message at a time, in the order of
\* arrival in the inbox: it does not take the next message until the callback
\* of the current one has completed and its ack was sent, so that a Records
\* stream queued behind a ReceiveQuery or PrepareQuery message is neither
\* registered nor its waiting consumer woken before that callback completes.
C28_SerialLoop ==
    /\ [][TakesInOrder]_vars
    /\ [](/\ InHandling \subseteq {loop.cur}
          /\ InHandling # {} => loop.pc = "callback"
          /\ \A s \in taken \ InHandling :
                handled[s].res = "panic" \/ ackSends[s] = 1
          /\ \A s \in QueuedRecords :
                /\ s \notin taken
                /\ ackSends[s] = 0
                /\ s \notin stored[KeyOf(msg[s].addr)]
                /\ streams[KeyOf(msg[s].addr)] # Ready(s)
                /\ \A c \in ConsIds : consumers[c].stream # s)

\* A callback is being awaited while a Records message is queued behind it
\* and a consumer is parked on the key of that message.
C28_Witness ==
    /\ loop.pc = "callback"
    /\ \E s \in QueuedRecords :
          /\ streams[KeyOf(msg[s].addr)].st = "Waiting"
          /\ \E c \in ConsIds :
                /\ consumers[c].key = KeyOf(msg[s].addr)
                /\ consumers[c].parked
                /\ ~notified[c]

\* ---------------------------------------------------------------- C29
\* A call for one key leaves the cells of all other keys, and what was stored
\* and handed out under them, as they were; it wakes only the waker stored
\* under its key and hands out only the stream stored under its key.
OneKeyStep ==
    LET key == last'.key IN
    /\ \A k \in DOMAIN streams \ {key} :
          /\ streams'[k] = streams[k]
          /\ stored'[k] = stored[k]
          /\ handed'[k] = handed[k]
    /\ last'.op = "add_stream" =>
          /\ last'.wake \in {NoTask, streams[key].waker}
          /\ last'.wake # NoTask => streams[key].st = "Waiting"
    /\ (last'.op = "add_waker" /\ last'.out = "Some") =>
          /\ streams[key] = Ready(last'.id)
          /\ last'.id \in stored[key]
          /\ handed' = [handed EXCEPT ![key] = @ \cup {last'.id}]

\* C29: add_stream and add_waker for one key change only the cell of that
\* key: the cells of all other keys, those that differ only in the origin
\* helper or only in the step included, are unchanged, and a consumer waiting
\* on one key is never woken by, nor handed, a stream added under another key.
C29_KeysIndependent == [][OneKeyStep]_vars

\* A stream was added under a key whose cell was Waiting and its waker was
\* woken, while the keys that differ from it only in the origin and only in
\* the step are still Waiting, with the waker of another task.
C29_Witness ==
    /\ last.op = "add_stream"
    /\ last.key = <<"q1", "TWO", "s1">>
    /\ last.pre.st = "Waiting"
    /\ last.wake = "t1"
    /\ streams[<<"q1", "THREE", "s1">>] = Waiting("t2")
    /\ streams[<<"q1", "TWO", "s2">>] = Waiting("t2")

\* ---------------------------------------------------------------- C30
\* C30: add_waker on a cell in Waiting(old) returns None and leaves the cell
\* and its stored waker unchanged when old.will_wake(w) holds, and panics on
\* the assertion otherwise; it never replaces the stored waker by the new one.
C30_WaitingKeepsWaker ==
    (last.op = "add_waker" /\ last.pre.st = "Waiting") =>
        /\ streams[last.key] = last.pre
        /\ last.id = 0
        /\ last.pre.waker = last.wake =>
              (last.out = "None" /\ last.panic = NoPanic)
        /\ last.pre.waker # last.wake =>
              (last.out = "Panic" /\ last.panic = "assertion failed: will_wake")
        /\ ~poisoned

\* add_waker was called with the waker of another task than the one stored:
\* the assertion has failed and the cell still holds the stored waker.
C30_Witness ==
    /\ last.op = "add_waker"
    /\ last.pre = Waiting("t1")
    /\ last.wake = "t2"
    /\ last.out = "Panic"
    /\ streams[last.key] = Waiting("t1")

\* ---------------------------------------------------------------- C31
\* C31: a poll of a Pending consumer whose cell is Waiting, made with the
\* waker of another task than the one stored, returns Pending without a
\* panic and leaves the waker of the task that polled last in the cell, so
\* that this task is the one add_stream wakes.
C31_SecondPollPending ==
    (/\ last.op = "poll"
     /\ last.pre.st = "Waiting"
     /\ last.pre.waker # consumers[last.id].owner) =>
        /\ last.out = "Pending"
        /\ last.panic = NoPanic
        /\ streams[last.key] = Waiting(consumers[last.id].owner)

\* ---------------------------------------------------------------- C32
\* The poll of a ReceiveRecords that was Pending before the step.
PendingPoll(c) == last'.op = "poll" /\ last'.id = c

\* The poll of a ReceiveRecords that was Ready before the step.
ReadyPoll(c) == last'.op = "poll_ready" /\ last'.id = c

\* C32: every poll of a Pending ReceiveRecords calls add_waker with the
\* waker of the polling task, and the consumer becomes Ready(s) exactly when
\* the call returns Some(s); a Ready consumer keeps its stream and never
\* returns to Pending, and its polls are answered by its stream alone: they
\* leave the collection untouched and never panic.
C32_ReadyIsFinal ==
    [][\A c \in ConsIds :
        LET key == consumers[c].key
            r == add_waker(streams, key, consumers'[c].owner)
            s == consumers[c].stream
        IN  /\ PendingPoll(c) =>
                /\ consumers[c].st = "Pending"
                /\ streams' = r.streams
                /\ last'.panic = r.panic
                /\ (r.panic = NoPanic /\ r.ret # 0) =>
                        /\ consumers'[c].st = "Ready"
                        /\ consumers'[c].stream = r.ret
                /\ (r.panic # NoPanic \/ r.ret = 0) =>
                        consumers'[c].st = "Pending"
            /\ consumers[c].st = "Ready" =>
                /\ consumers'[c].st \in {"Ready", "dropped"}
                /\ consumers'[c].st = "Ready" => consumers'[c].stream = s
            /\ ReadyPoll(c) =>
                /\ consumers[c].st = "Ready"
                /\ UNCHANGED collVars
                /\ last'.panic = NoPanic
                /\ last'.out = StreamPoll(s, pushed[s], closed[s], rd[s]).out
    ]_vars

\* A consumer that took the stream of its key is polled again after the
\* producer yielded a chunk: the cell is the Completed tombstone and the
\* poll yields the chunk.
C32_Witness ==
    /\ last.op = "poll_ready"
    /\ last.out = "Item"
    /\ consumers[last.id].st = "Ready"
    /\ streams[last.key] = Completed
    /\ ~poisoned

\* ---------------------------------------------------------------- C33
\* The cell of key k holds the waker of a consumer that was dropped: no
\* ReceiveRecords of the key is left.
Dangling(k) ==
    /\ streams[k].st = "Waiting"
    /\ \E c \in ConsIds : consumers[c].st = "dropped" /\ consumers[c].key = k
    /\ \A c \in ConsIds : consumers[c].key = k => consumers[c].st \notin {"Pending", "Ready"}

Enqueued == {s \in DOMAIN msg : ack[s] # "none"}

\* C34: the inbox, which the packets of every peer go through, never holds
\* more than InboxCapacity packets, and the number of packets ever enqueued
\* is at most InboxCapacity more than the number the loop has removed: a
\* send that finds the inbox full enqueues only after a removal.
C34_BoundedInbox ==
    /\ Len(inbox) <= InboxCapacity
    /\ Cardinality(Enqueued) <= InboxCapacity + Cardinality(taken)
    /\ \A i \in 1..Len(inbox) : inbox[i] \in Enqueued \ taken

\* The inbox is full again: it held InboxCapacity packets of both peers, the
\* loop removed one and the send that was blocked has enqueued its packet.
C34_Witness ==
    /\ Len(inbox) = InboxCapacity
    /\ Cardinality(taken) = 1
    /\ ack[InboxCapacity + 1] = "open"
    /\ inbox[InboxCapacity] = InboxCapacity + 1
    /\ \E i, j \in 1..Len(inbox) :
          msg[inbox[i]].addr.origin # msg[inbox[j]].addr.origin

\* ---------------------------------------------------------------- C35
\* C35: the bytes of every EncryptedReport from_bytes returns are the bytes
\* it was given, with the event-type byte 0 or 1 and an ASCII site domain,
\* so that none of the unwraps of event_type(), site_domain() and Info::new
\* fails and decrypt of such a report never panics. decrypt validates
\* nothing itself: on bytes that are long enough it panics exactly when the
\* event-type byte is invalid or the site domain is not ASCII.
C35_ValidatedOnConstruction ==
    /\ rp.parsed.kind = "Ok" =>
          /\ rp.parsed.val = rp.buf.val
          /\ rp.parsed.val[EVENT_TYPE_OFFSET + 1] \in {0, 1}
          /\ EventType_try_from(rp.parsed.val[EVENT_TYPE_OFFSET + 1]).ok
          /\ is_ascii(site_domain(rp.parsed.val))
          /\ Info_new(key_id(rp.parsed.val), epoch(rp.parsed.val),
                      event_type(rp.parsed.val), site_domain(rp.parsed.val)).ok
          /\ ~UnwrapFails(rp.parsed.val)
    /\ rp.decrypted.kind \in {"-", "Ok", "Crypt"}
    /\ (rp.buf.kind = "Ok" /\ Len(rp.buf.val) >= SITE_DOMAIN_OFFSET) =>
          (decrypt(rp.buf.val, rp.registry).kind = "Panic"
              <=> ~(ValidEventByte /\ AsciiDomain))

\* A report with a trigger event type and a site domain of MaxDomain ASCII
\* bytes was returned by from_bytes and then handed to decrypt, which
\* returned without a panic.
C35_Witness ==
    /\ rp.parsed.kind = "Ok"
    /\ rp.decrypted.kind \in {"Ok", "Crypt"}
    /\ rp.parsed.val[EVENT_TYPE_OFFSET + 1] = 1
    /\ Len(site_domain(rp.parsed.val)) = MaxDomain

\* ---------------------------------------------------------------- C36
\* The loop calls ack.send for packet s, whose sender has dropped ack_rx.
RepliesToCancelled(s) == ack[s] = "rxDropped" /\ ackSends'[s] > ackSends[s]

\* C36: when the loop replies to a packet whose sender has dropped its ack
\* receiver, the send fails and the unwrap panics: the loop stops on that
\* packet, and the packets queued behind it are dropped with the inbox,
\* their ack senders with them. A stopped loop stays stopped: it takes and
\* handles nothing more, and a send() that starts afterwards does not
\* enqueue its packet and returns ConnectionAborted.
C36_CancelStopsLoop ==
    [][/\ \A s \in SendIds :
            RepliesToCancelled(s) =>
                /\ loop' = [pc |-> "panicked", cur |-> s,
                            panic |-> "called unwrap on an Err value"]
                /\ ack'[s] = "rxDropped"
                /\ inbox' = <<>>
                /\ \A q \in SendIds :
                      (Queued(q) /\ ack[q] = "open") =>
                          (ack'[q] = "txDropped" /\ q \notin taken')
       /\ loop.pc = "panicked" =>
            /\ loop' = loop
            /\ inbox' = <<>>
            /\ taken' = taken
            /\ handled' = handled
            /\ cbCalls' = cbCalls
            /\ stored' = stored
            /\ ackSends' = ackSends
            /\ \A s \in SendIds :
                  (msg[s].pc = "idle" /\ msg'[s].pc # "idle") =>
                      /\ msg'[s].pc = "returned"
                      /\ msg'[s].result.err = "ConnectionAborted"
                      /\ ack'[s] = "none"
    ]_vars

\* The loop has panicked on the reply to a sender that stopped waiting,
\* with another packet queued behind: that packet was never taken and its
\* ack sender is gone.
C36_Witness ==
    /\ loop.pc = "panicked"
    /\ loop.panic = "called unwrap on an Err value"
    /\ msg[loop.cur].pc = "cancelled"
    /\ ackSends[loop.cur] = 1
    /\ \E q \in SendIds :
          /\ q \notin taken
          /\ msg[q].pc = "queued"
          /\ ack[q] = "txDropped"
          /\ handled[q] = NotHandled

\* ---------------------------------------------------------------- C37
\* What the senders get from a loop that has stopped by panic: Rejected for
\* a packet that was being handled or was queued, ConnectionAborted for a
\* send() that started afterwards.
StoppedLoopResults ==
    loop.pc = "panicked" =>
        \A s \in SendIds :
            /\ msg[s].pc = "queued" => ack[s] \in {"sent", "txDropped"}
            /\ (msg[s].pc = "returned" /\ handled[s].res \in {"-", "panic"}) =>
                  IF ack[s] = "none"
                  THEN /\ msg[s].result.kind = "Io"
                       /\ msg[s].result.err = "ConnectionAborted"
                       /\ s \notin taken
                  ELSE /\ msg[s].result.kind = "Rejected"
                       /\ ack[s] = "txDropped"

Ran(h) == zk.res[h] # NotRun

\* The results of two verifiers, added component-wise.
AddVerified(x, y) ==
    [panic |-> NoPanic,
     out_share |-> field_add(x.out_share, y.out_share),
     zero_share |-> field_add(x.zero_share, y.zero_share)]
AddCompressed(x, y) == [panic |-> NoPanic, vec |-> ChunksAdd(x.vec, y.vec)]

\* verify_proof and recurse_u_or_v on the sum of the shares of h and k.
VerifySum(h, k) ==
    verify_proof(zk.lambda,
        field_add(zk.shares[h].out_share, zk.shares[k].out_share),
        VecAdd(zk.shares[h].zkp, zk.shares[k].zkp), zk.r)
RecurseSum(h, k) ==
    recurse_u_or_v(zk.lambda, ChunksAdd(zk.shares[h], zk.shares[k]), zk.r)

\* verify_proof and recurse_u_or_v on the reconstructed proof or vector.
VerifyAll ==
    verify_proof(zk.lambda,
        field_add(field_add(zk.shares[1].out_share, zk.shares[2].out_share),
                  zk.shares[3].out_share),
        VecAdd(VecAdd(zk.shares[1].zkp, zk.shares[2].zkp), zk.shares[3].zkp),
        zk.r)
RecurseAll ==
    recurse_u_or_v(zk.lambda,
        ChunksAdd(ChunksAdd(zk.shares[1], zk.shares[2]), zk.shares[3]), zk.r)

\* C38: verify_proof is linear over shares: with the same r, the results of
\* two helpers on their shares add up, component by component, to the result
\* on the sum of the two shares, and the results of the three helpers add up
\* to the verification of the reconstructed proof; recurse_u_or_v is linear
\* in its chunks in the same way.
C38_Linear ==
    /\ \A h, k \in Helpers :
          (h < k /\ Ran(h) /\ Ran(k)) =>
              /\ zk.res[h].panic = NoPanic /\ zk.res[k].panic = NoPanic
              /\ zk.op = "verify" =>
                    AddVerified(zk.res[h], zk.res[k]) = VerifySum(h, k)
              /\ zk.op = "recurse" =>
                    AddCompressed(zk.res[h], zk.res[k]) = RecurseSum(h, k)
    /\ (\A h \in Helpers : Ran(h)) =>
          /\ zk.op = "verify" =>
                AddVerified(AddVerified(zk.res[1], zk.res[2]), zk.res[3])
                    = VerifyAll
          /\ zk.op = "recurse" =>
                AddCompressed(AddCompressed(zk.res[1], zk.res[2]), zk.res[3])
                    = RecurseAll

\* The three helpers have verified different shares of a proof whose
\* out_shares and zero_shares wrap around the prime when they are added.
C38_Witness ==
    /\ zk.op = "verify"
    /\ \A h \in Helpers : Ran(h)
    /\ zk.shares[1].zkp # zk.shares[2].zkp
    /\ zk.shares[1].out_share + zk.shares[2].out_share >= PRIME
    /\ zk.res[1].zero_share + zk.res[2].zero_share >= PRIME
    /\ zk.res[1].out_share + zk.res[2].out_share >= PRIME

\* ---------------------------------------------------------------- C39
\* The bytes of timestamp, breakdown key and trigger value, which precede
\* the encapsulated key.
Header(data) == Slice(data, 0, HeaderSize)

ShortBuffer == Len(rp.buf.val) < SITE_DOMAIN_OFFSET

\* C40: from_bytes returns Ok for no buffer shorter than SITE_DOMAIN_OFFSET,
\* so every fixed offset of the accessors lies inside the bytes of a
\* constructed report; on a shorter buffer it panics on an index out of
\* range and returns no InvalidReportError, unless the event-type byte is
\* there and is invalid, which gives BadEventType; a buffer of exactly
\* SITE_DOMAIN_OFFSET bytes with a valid event type is accepted, with an
\* empty site domain.
C40_ShortBuffers ==
    Parsed =>
        /\ rp.parsed.kind = "Ok" =>
              /\ ~ShortBuffer
              /\ Len(rp.parsed.val) >= SITE_DOMAIN_OFFSET
              /\ HeaderSize <= CIPHERTEXT_OFFSET
              /\ CIPHERTEXT_OFFSET <= EVENT_TYPE_OFFSET
              /\ EVENT_TYPE_OFFSET + 2 <= SITE_DOMAIN_OFFSET
        /\ ShortBuffer =>
              /\ rp.parsed.kind \in {"Panic", "BadEventType"}
              /\ rp.parsed.kind = "BadEventType" <=>
                    (Len(rp.buf.val) > EVENT_TYPE_OFFSET /\ ~ValidEventByte)
              /\ rp.parsed.kind = "Panic" => rp.parsed.val = IndexOutOfBounds
        /\ (Len(rp.buf.val) = SITE_DOMAIN_OFFSET /\ ValidEventByte) =>
              /\ rp.parsed.kind = "Ok"
              /\ site_domain(rp.parsed.val) = <<>>

\* from_bytes has panicked on a buffer that holds a valid event-type byte
\* and ends one byte before SITE_DOMAIN_OFFSET.
C40_Witness ==
    /\ Parsed
    /\ Len(rp.buf.val) = SITE_DOMAIN_OFFSET - 1
    /\ ValidEventByte
    /\ rp.parsed = Outcome("Panic", IndexOutOfBounds)

====
